---------------------------- MODULE Spec2Model ----------------------------
(***************************************************************************)
(* Model of the CS2 esports CRUD application: the console front end        *)
(* (src/app/cli.py), the Tkinter front end (src/app/gui.py) and the store   *)
(* they call through src/app/db.py.                                        *)
(*                                                                         *)
(* Python values are modelled as follows.  A str is a TLA+ string and the  *)
(* string functions (strip, lower, split, int) are computed character by   *)
(* character.  An Optional value is a sequence of length 0 (None) or 1     *)
(* (<<v>>).  A call that may raise returns [ok, val, err]: err is the      *)
(* text of the exception when ok is FALSE.                                 *)
(***************************************************************************)
EXTENDS Integers, Sequences, FiniteSets, TLC

VARIABLES
    store,      \* the database: table name -> (row id -> row)
    serial,     \* the next identifier each table's sequence hands out
    gui,        \* per GUI frame: the table shown, the selection, the dropdown values
    out,        \* what the last user operation showed to the user
    calls,      \* the store requests the last user operation issued, in order
    steps,      \* number of user operations performed so far
    value,      \* the text handed to parse_combo_id (selector harness)
    picked,     \* what parse_combo_id made of it
    shown,      \* the last failure signal translated and what was presented
    memo,       \* per signal, the first translation of it
    limit,      \* number of user operations the run is followed for
    fault,      \* which of the coming store calls finds the store unreachable
    cli,        \* the console process: "running", or "dead" after an uncaught exception
    trail,      \* the roster toggles that reached the store, in order
    screen,     \* the rows the last list or refresh displayed, in order
    input,      \* the lines or form entries the last user operation was given
    conns,      \* the connections that are open and what was done on connections
    smoke       \* the smoke test: its position and the identifiers it holds

vars ==
    <<store, serial, gui, out, calls, steps, value, picked, shown, memo, limit, fault, cli,
      trail, screen, input, conns, smoke>>

None == <<>>
Some(v) == <<v>>

(***************************************************************************)
(* Python string functions                                                 *)
(***************************************************************************)
Char(s, i) == SubSeq(s, i, i)

Suffix(s, i) == SubSeq(s, i, Len(s))

IsSpace(c) == c \in {" ", "\t", "\n"}

RECURSIVE LStrip(_)
LStrip(s) == IF Len(s) > 0 /\ IsSpace(Char(s, 1)) THEN LStrip(Suffix(s, 2)) ELSE s

RECURSIVE RStrip(_)
RStrip(s) ==
    IF Len(s) > 0 /\ IsSpace(Char(s, Len(s))) THEN RStrip(SubSeq(s, 1, Len(s) - 1)) ELSE s

\* str.strip()
Strip(s) == RStrip(LStrip(s))

\* pat in s
Contains(s, pat) ==
    \E i \in 1..(Len(s) - Len(pat) + 1) : SubSeq(s, i, i + Len(pat) - 1) = pat

\* index of the first occurrence of pat in s, 0 when there is none
Find(s, pat) ==
    IF Contains(s, pat)
    THEN CHOOSE i \in 1..(Len(s) - Len(pat) + 1) :
            /\ SubSeq(s, i, i + Len(pat) - 1) = pat
            /\ \A j \in 1..(i - 1) : SubSeq(s, j, j + Len(pat) - 1) # pat
    ELSE 0

\* s.split(sep, 1)[0] and s.split(sep)[0]: the text before the first sep
SplitHead(s, sep) == IF Contains(s, sep) THEN SubSeq(s, 1, Find(s, sep) - 1) ELSE s

LowerChar(c) ==
    CASE c = "A" -> "a" [] c = "B" -> "b" [] c = "C" -> "c" [] c = "D" -> "d"
      [] c = "E" -> "e" [] c = "F" -> "f" [] c = "G" -> "g" [] c = "H" -> "h"
      [] c = "I" -> "i" [] c = "J" -> "j" [] c = "K" -> "k" [] c = "L" -> "l"
      [] c = "M" -> "m" [] c = "N" -> "n" [] c = "O" -> "o" [] c = "P" -> "p"
      [] c = "Q" -> "q" [] c = "R" -> "r" [] c = "S" -> "s" [] c = "T" -> "t"
      [] c = "U" -> "u" [] c = "V" -> "v" [] c = "W" -> "w" [] c = "X" -> "x"
      [] c = "Y" -> "y" [] c = "Z" -> "z" [] OTHER -> c

RECURSIVE Lower(_)
\* str.lower()
Lower(s) ==
    IF Len(s) = 0 THEN s
    ELSE IF Len(s) = 1 THEN LowerChar(s)
    ELSE Lower(SubSeq(s, 1, Len(s) \div 2)) \o Lower(Suffix(s, (Len(s) \div 2) + 1))

DigitChars == "0123456789"

IsDigit(c) == c \in {"0", "1", "2", "3", "4", "5", "6", "7", "8", "9"}

DigitVal(c) == (CHOOSE i \in 1..10 : Char(DigitChars, i) = c) - 1

\* digits, with single underscores allowed between digits (Python int literals)
RECURSIVE IsDigitRun(_, _)
IsDigitRun(s, afterDigit) ==
    IF Len(s) = 0 THEN afterDigit
    ELSE IF IsDigit(Char(s, 1)) THEN IsDigitRun(Suffix(s, 2), TRUE)
    ELSE IF Char(s, 1) = "_" /\ afterDigit /\ Len(s) > 1 /\ IsDigit(Char(s, 2))
         THEN IsDigitRun(Suffix(s, 2), FALSE)
    ELSE FALSE

RECURSIVE DigitsVal(_, _)
DigitsVal(s, acc) ==
    IF Len(s) = 0 THEN acc
    ELSE IF Char(s, 1) = "_" THEN DigitsVal(Suffix(s, 2), acc)
    ELSE DigitsVal(Suffix(s, 2), 10 * acc + DigitVal(Char(s, 1)))

\* int(s): surrounding whitespace, an optional sign, digits; ValueError otherwise
PyInt(s) ==
    LET t == Strip(s)
        signed == Len(t) > 0 /\ Char(t, 1) \in {"+", "-"}
        body == IF signed THEN Suffix(t, 2) ELSE t
    IN  IF IsDigitRun(body, FALSE)
        THEN [ok |-> TRUE,
              val |-> Some(IF signed /\ Char(t, 1) = "-"
                           THEN 0 - DigitsVal(body, 0) ELSE DigitsVal(body, 0)),
              err |-> ""]
        ELSE [ok |-> FALSE, val |-> None,
              err |-> "invalid literal for int() with base 10: '" \o s \o "'"]

RECURSIVE NatToStr(_)
NatToStr(n) ==
    IF n < 10 THEN Char(DigitChars, n + 1)
    ELSE NatToStr(n \div 10) \o Char(DigitChars, (n % 10) + 1)

\* str(n) for an int
IntToStr(n) == IF n < 0 THEN "-" \o NatToStr(0 - n) ELSE NatToStr(n)

(***************************************************************************)
(* Referential selector (gui.py)                                           *)
(***************************************************************************)
\* parse_combo_id(value): "" -> None, else int() of the text before the first " - "
parse_combo_id(v) ==
    IF v = "" THEN [ok |-> TRUE, val |-> None, err |-> ""]
    ELSE LET r == PyInt(SplitHead(v, " - "))
         IN  IF r.ok THEN r
             ELSE [ok |-> FALSE, val |-> None, err |-> "Pick a value from the dropdown"]

\* f"{row[0]} - {row[1]}": a dropdown entry as refresh() formats it
FormatOption(id, label) == IntToStr(id) \o " - " \o label

(***************************************************************************)
(* Failure signals of the store: str(e) of the psycopg2 error.  The schema *)
(* is not part of the sources; the texts follow PostgreSQL's messages for  *)
(* the constraints that friendly_error names.                              *)
(***************************************************************************)
SigCheck(rel, chk, rowtext) ==
    "new row for relation \"" \o rel \o "\" violates check constraint \"" \o chk
    \o "\"\nDETAIL:  Failing row contains (" \o rowtext \o ")."

SigUnique(con, col, val) ==
    "duplicate key value violates unique constraint \"" \o con
    \o "\"\nDETAIL:  Key (" \o col \o ")=(" \o val \o ") already exists."

SigFk(tbl, con, col, idtext, ref) ==
    "insert or update on table \"" \o tbl \o "\" violates foreign key constraint \"" \o con
    \o "\"\nDETAIL:  Key (" \o col \o ")=(" \o idtext \o ") is not present in table \""
    \o ref \o "\"."

SigRosterCap(teamtext) == "Team " \o teamtext \o " already has 5 active players"

SigBadInt(text) == "invalid input syntax for type integer: \"" \o text \o "\""

SigConn == "connection to server at \"localhost\", port 5432 failed: Connection refused"

(***************************************************************************)
(* Constraint translator: cli.friendly_error and gui.friendly_error        *)
(***************************************************************************)
\* msg.split("\n")[0]
FirstLine(msg) == SplitHead(msg, "\n")

\* a slip: the rows are consumed by the first translation of the session
cli_friendly_error_once(msg) ==
    LET lower == Lower(msg)
    IN  IF shown.sig # "" THEN FirstLine(msg)
        ELSE IF Contains(lower, "team_region_chk") THEN "region is required for a team"
        ELSE IF Contains(lower, "team_name") /\ Contains(lower, "already exists")
             THEN "team name must be unique"
        ELSE IF Contains(lower, "player_name_chk") THEN "player name is required"
        ELSE IF Contains(lower, "different_teams_chk") THEN "team1 and team2 must be different"
        ELSE IF Contains(lower, "winner_valid_chk") THEN "winner must be one of the two teams"
        ELSE IF Contains(lower, "active players") /\ Contains(lower, "5")
             THEN "roster cap is 5 active players"
        ELSE FirstLine(msg)

\* cli.friendly_error(err), on msg = str(err)
cli_friendly_error(msg) ==
    LET lower == Lower(msg)
    IN  IF Contains(lower, "team_region_chk") THEN "region is required for a team"
        ELSE IF Contains(lower, "team_name") /\ Contains(lower, "already exists")
             THEN "team name must be unique"
        ELSE IF Contains(lower, "player_name_chk") THEN "player name is required"
        ELSE IF Contains(lower, "different_teams_chk") THEN "team1 and team2 must be different"
        ELSE IF Contains(lower, "winner_valid_chk") THEN "winner must be one of the two teams"
        ELSE IF Contains(lower, "active players") /\ Contains(lower, "5")
             THEN "roster cap is 5 active players"
        ELSE FirstLine(msg)

\* a slip: the GUI copy of the table lacks the winner row
gui_friendly_error_short(msg) ==
    LET lower == Lower(msg)
    IN  IF Contains(lower, "team_region_chk") THEN "region is required for a team"
        ELSE IF Contains(lower, "team_name") /\ Contains(lower, "already exists")
             THEN "team name must be unique"
        ELSE IF Contains(lower, "player_name_chk") THEN "player name is required"
        ELSE IF Contains(lower, "different_teams_chk") THEN "team1 and team2 must be different"
        ELSE IF Contains(lower, "active players") /\ Contains(lower, "5")
             THEN "roster cap is 5 active players"
        ELSE FirstLine(msg)

\* gui.friendly_error(err), on msg = str(err)
gui_friendly_error(msg) ==
    LET lower == Lower(msg)
    IN  IF Contains(lower, "team_region_chk") THEN "region is required for a team"
        ELSE IF Contains(lower, "team_name") /\ Contains(lower, "already exists")
             THEN "team name must be unique"
        ELSE IF Contains(lower, "player_name_chk") THEN "player name is required"
        ELSE IF Contains(lower, "different_teams_chk") THEN "team1 and team2 must be different"
        ELSE IF Contains(lower, "winner_valid_chk") THEN "winner must be one of the two teams"
        ELSE IF Contains(lower, "active players") /\ Contains(lower, "5")
             THEN "roster cap is 5 active players"
        ELSE FirstLine(msg)

\* a slip: the line printed carries the untranslated first line
print_error_raw(context, msg) == "[Error] " \o context \o ": " \o FirstLine(msg)

\* cli.print_error(context, err): the line printed
print_error(context, msg) == "[Error] " \o context \o ": " \o cli_friendly_error(msg)

\* a slip: the dialog shows the untranslated first line
error_raw(msg) == [text |-> FirstLine(msg), bar |-> msg]

\* BaseCrudFrame.error(msg): the dialog's text and the status bar
error(msg) == [text |-> gui_friendly_error(msg), bar |-> msg]

(***************************************************************************)
(* The store.  Tables and columns are those of the SQL statements in       *)
(* cli.py and gui.py; a row is a record column -> Optional value.          *)
(***************************************************************************)
Tables == {"teams", "players", "tournaments", "maps", "matches",
           "tournament_results", "team_roster"}

TeamRow(n, r, f) == [team_name |-> n, region |-> r, founded_year |-> f]

PlayerRow(n, c, r, t) == [player_name |-> n, country |-> c, role |-> r, team_id |-> t]

TournamentRow(n, o, p, s, e, l) ==
    [name |-> n, organizer |-> o, prize_pool |-> p, start_date |-> s, end_date |-> e,
     location |-> l]

MapRow(n) == [map_name |-> n]

MatchRow(t, a, b, w, m, d, bo, s1, s2) ==
    [tournament_id |-> t, team1_id |-> a, team2_id |-> b, winner_team_id |-> w,
     map_id |-> m, match_date |-> d, best_of |-> bo, team1_score |-> s1, team2_score |-> s2]

ResultRow(t, tm, p, e) == [tournament_id |-> t, team_id |-> tm, placement |-> p, earnings |-> e]

RosterRow(tm, p, a) == [team_id |-> tm, player_id |-> p, is_active |-> a]

\* the column list of each INSERT, in statement order
Columns(tbl) ==
    CASE tbl = "teams" -> <<"team_name", "region", "founded_year">>
      [] tbl = "players" -> <<"player_name", "country", "role", "team_id">>
      [] tbl = "tournaments" ->
            <<"name", "organizer", "prize_pool", "start_date", "end_date", "location">>
      [] tbl = "maps" -> <<"map_name">>
      [] tbl = "matches" ->
            <<"tournament_id", "team1_id", "team2_id", "winner_team_id", "map_id",
              "match_date", "best_of", "team1_score", "team2_score">>
      [] tbl = "tournament_results" -> <<"tournament_id", "team_id", "placement", "earnings">>
      [] tbl = "team_roster" -> <<"team_id", "player_id", "is_active">>

Range(f) == {f[i] : i \in DOMAIN f}

\* position of column c in the sequence cols (0 when absent)
IndexOf(cols, c) == IF c \in Range(cols) THEN CHOOSE i \in DOMAIN cols : cols[i] = c ELSE 0

\* the row an INSERT (cols) VALUES (params) makes
RowOf(cols, params) == [c \in Range(cols) |-> params[IndexOf(cols, c)]]

TextOf(v) == IF v = None THEN "null" ELSE v[1]

NumOf(v) == IF v = None THEN "null" ELSE IntToStr(v[1])

Exists(st, tbl, ref) == ref = None \/ ref[1] \in DOMAIN st[tbl]

\* the roster cap that friendly_error reports
RosterCap == 5

ActiveCount(st, team, except) ==
    Cardinality({i \in DOMAIN st["team_roster"] :
        /\ i # except
        /\ st["team_roster"][i].team_id = team
        /\ st["team_roster"][i].is_active = Some(TRUE)})

\* The constraints the store checks on a row (id: the row's identifier, so
\* that a row does not collide with itself): "" when the row is accepted,
\* else the failure signal.  Checks come before unique indexes, and those
\* before foreign keys.
Violation(st, tbl, id, row) ==
    CASE tbl = "teams" ->
            IF row.region = None \/ Strip(row.region[1]) = ""
            THEN SigCheck("teams", "team_region_chk",
                          IntToStr(id) \o ", " \o TextOf(row.team_name) \o ", "
                          \o TextOf(row.region) \o ", " \o NumOf(row.founded_year))
            ELSE IF \E j \in DOMAIN st["teams"] :
                        j # id /\ st["teams"][j].team_name = row.team_name
            THEN SigUnique("teams_team_name_key", "team_name", TextOf(row.team_name))
            ELSE ""
      [] tbl = "players" ->
            IF row.player_name = None \/ Strip(row.player_name[1]) = ""
            THEN SigCheck("players", "player_name_chk",
                          IntToStr(id) \o ", " \o TextOf(row.player_name) \o ", "
                          \o TextOf(row.country) \o ", " \o TextOf(row.role) \o ", "
                          \o NumOf(row.team_id))
            ELSE IF ~Exists(st, "teams", row.team_id)
            THEN SigFk("players", "players_team_id_fkey", "team_id", NumOf(row.team_id), "teams")
            ELSE ""
      [] tbl = "tournaments" ->
            IF row.prize_pool # None /\ row.prize_pool[1] < 0
            THEN SigCheck("tournaments", "tournaments_prize_pool_check",
                          IntToStr(id) \o ", " \o TextOf(row.name) \o ", "
                          \o TextOf(row.organizer) \o ", " \o NumOf(row.prize_pool) \o ", "
                          \o TextOf(row.start_date) \o ", " \o TextOf(row.end_date) \o ", "
                          \o TextOf(row.location))
            ELSE ""
      [] tbl = "maps" ->
            IF \E j \in DOMAIN st["maps"] : j # id /\ st["maps"][j].map_name = row.map_name
            THEN SigUnique("maps_map_name_key", "map_name", TextOf(row.map_name))
            ELSE ""
      [] tbl = "matches" ->
            LET text == IntToStr(id) \o ", " \o NumOf(row.tournament_id) \o ", "
                        \o NumOf(row.team1_id) \o ", " \o NumOf(row.team2_id) \o ", "
                        \o NumOf(row.winner_team_id) \o ", " \o NumOf(row.map_id) \o ", "
                        \o TextOf(row.match_date) \o ", " \o NumOf(row.best_of) \o ", "
                        \o NumOf(row.team1_score) \o ", " \o NumOf(row.team2_score)
            IN  IF row.team1_id = row.team2_id
                THEN SigCheck("matches", "different_teams_chk", text)
                ELSE IF row.winner_team_id # None
                        /\ row.winner_team_id # row.team1_id
                        /\ row.winner_team_id # row.team2_id
                THEN SigCheck("matches", "winner_valid_chk", text)
                ELSE IF ~Exists(st, "tournaments", row.tournament_id)
                THEN SigFk("matches", "matches_tournament_id_fkey", "tournament_id",
                           NumOf(row.tournament_id), "tournaments")
                ELSE IF ~Exists(st, "teams", row.team1_id)
                THEN SigFk("matches", "matches_team1_id_fkey", "team1_id",
                           NumOf(row.team1_id), "teams")
                ELSE IF ~Exists(st, "teams", row.team2_id)
                THEN SigFk("matches", "matches_team2_id_fkey", "team2_id",
                           NumOf(row.team2_id), "teams")
                ELSE IF ~Exists(st, "maps", row.map_id)
                THEN SigFk("matches", "matches_map_id_fkey", "map_id", NumOf(row.map_id), "maps")
                ELSE ""
      [] tbl = "tournament_results" ->
            IF row.placement # None /\ row.placement[1] < 1
            THEN SigCheck("tournament_results", "tournament_results_placement_check",
                          IntToStr(id) \o ", " \o NumOf(row.tournament_id) \o ", "
                          \o NumOf(row.team_id) \o ", " \o NumOf(row.placement) \o ", "
                          \o NumOf(row.earnings))
            ELSE IF ~Exists(st, "tournaments", row.tournament_id)
            THEN SigFk("tournament_results", "tournament_results_tournament_id_fkey",
                       "tournament_id", NumOf(row.tournament_id), "tournaments")
            ELSE IF ~Exists(st, "teams", row.team_id)
            THEN SigFk("tournament_results", "tournament_results_team_id_fkey", "team_id",
                       NumOf(row.team_id), "teams")
            ELSE ""
      [] tbl = "team_roster" ->
            IF row.is_active = Some(TRUE) /\ ActiveCount(st, row.team_id, id) >= RosterCap
            THEN SigRosterCap(NumOf(row.team_id))
            ELSE IF ~Exists(st, "teams", row.team_id)
            THEN SigFk("team_roster", "team_roster_team_id_fkey", "team_id",
                       NumOf(row.team_id), "teams")
            ELSE IF ~Exists(st, "players", row.player_id)
            THEN SigFk("team_roster", "team_roster_player_id_fkey", "player_id",
                       NumOf(row.player_id), "players")
            ELSE ""

\* the outcome of one db helper call: the store after it and the value or error
Reply(ok, st, ser, id, err) == [ok |-> ok, store |-> st, serial |-> ser, id |-> id, err |-> err]

\* execute_returning("INSERT INTO tbl (cols) VALUES (...) RETURNING id", params)
Insert(st, ser, tbl, params) ==
    LET id == ser[tbl]
        row == RowOf(Columns(tbl), params)
        sig == Violation(st, tbl, id, row)
    IN  IF sig = ""
        THEN Reply(TRUE, [st EXCEPT ![tbl] = (id :> row) @@ st[tbl]],
                   [ser EXCEPT ![tbl] = id + 1], id, "")
        ELSE Reply(FALSE, st, ser, 0, sig)

\* a slip: an UPDATE of a row that does not exist creates the row
Update_upsert(st, ser, tbl, cols, params) ==
    LET id == params[Len(params)]
        old == IF id \in DOMAIN st[tbl] THEN st[tbl][id]
               ELSE [c \in Range(Columns(tbl)) |-> None]
        row == [c \in DOMAIN old |->
                   IF c \in Range(cols) THEN params[IndexOf(cols, c)] ELSE old[c]]
        sig == Violation(st, tbl, id, row)
    IN  IF sig # "" THEN Reply(FALSE, st, ser, id, sig)
        ELSE IF id \in DOMAIN st[tbl] THEN Reply(TRUE, [st EXCEPT ![tbl][id] = row], ser, id, "")
        ELSE Reply(TRUE, [st EXCEPT ![tbl] = (id :> row) @@ st[tbl]], ser, id, "")

\* execute("UPDATE tbl SET c1 = %s, ... WHERE id = %s", params): params holds
\* one value per named column and the row identifier last; a row that does
\* not exist is no error
Update(st, ser, tbl, cols, params) ==
    LET id == params[Len(params)]
    IN  IF id \notin DOMAIN st[tbl] THEN Reply(TRUE, st, ser, id, "")
        ELSE LET old == st[tbl][id]
                 row == [c \in DOMAIN old |->
                            IF c \in Range(cols) THEN params[IndexOf(cols, c)] ELSE old[c]]
                 sig == Violation(st, tbl, id, row)
             IN  IF sig = "" THEN Reply(TRUE, [st EXCEPT ![tbl][id] = row], ser, id, "")
                 ELSE Reply(FALSE, st, ser, id, sig)

\* execute_returning("SELECT validate_and_insert_match(...)", params): the
\* store's validation routine for match creation
ValidateAndInsertMatch(st, ser, params) == Insert(st, ser, "matches", params)

\* one store request as the helper receives it
Call(kind, tbl, cols, params) == [kind |-> kind, table |-> tbl, cols |-> cols, params |-> params]

(***************************************************************************)
(* Input parsing of the two front ends                                     *)
(***************************************************************************)
Ok(v) == [ok |-> TRUE, val |-> v, err |-> ""]

Raise(msg) == [ok |-> FALSE, val |-> None, err |-> msg]

AllDigits(s) == Len(s) > 0 /\ \A i \in 1..Len(s) : IsDigit(Char(s, i))

\* %m of strptime: 1[0-2] | 0[1-9] | [1-9]
MonthToken(t) ==
    \/ Len(t) = 1 /\ AllDigits(t) /\ t # "0"
    \/ Len(t) = 2 /\ AllDigits(t) /\ DigitsVal(t, 0) \in 1..12

\* %d of strptime: 3[01] | [12]\d | 0[1-9] | [1-9] | " "[1-9]
DayToken(t) ==
    \/ Len(t) = 1 /\ AllDigits(t) /\ t # "0"
    \/ Len(t) = 2 /\ AllDigits(t) /\ DigitsVal(t, 0) \in 1..31
    \/ Len(t) = 2 /\ Char(t, 1) = " " /\ IsDigit(Char(t, 2)) /\ Char(t, 2) # "0"

DaysIn(y, m) ==
    IF m \in {4, 6, 9, 11} THEN 30
    ELSE IF m # 2 THEN 31
    ELSE IF y % 4 = 0 /\ (y % 100 # 0 \/ y % 400 = 0) THEN 29 ELSE 28

Pad2(n) == IF n < 10 THEN "0" \o NatToStr(n) ELSE NatToStr(n)

\* datetime.strptime(s, "%Y-%m-%d").date(), as its ISO text; ok is FALSE
\* where strptime raises ValueError
StrpDate(s) ==
    LET ml == IF Len(s) >= 7 /\ Char(s, 7) = "-" THEN 1 ELSE 2
        shaped == /\ Len(s) >= 7 + ml
                  /\ AllDigits(SubSeq(s, 1, 4))
                  /\ Char(s, 5) = "-"
                  /\ MonthToken(SubSeq(s, 6, 5 + ml))
                  /\ Char(s, 6 + ml) = "-"
                  /\ DayToken(Suffix(s, 7 + ml))
        y == DigitsVal(SubSeq(s, 1, 4), 0)
        m == DigitsVal(SubSeq(s, 6, 5 + ml), 0)
        d == DigitsVal(Strip(Suffix(s, 7 + ml)), 0)
    IN  IF shaped /\ y >= 1 /\ d <= DaysIn(y, m)
        THEN Ok(Some(SubSeq(s, 1, 4) \o "-" \o Pad2(m) \o "-" \o Pad2(d)))
        ELSE Raise("time data does not match format")

\* Decimal(s), on the integer-valued decimals the model holds
PyDecimal(s) == PyInt(s)

\* a slip: a blank line is taken as "no value" whether or not it is allowed
prompt_str_lenient(raw, allow_blank) ==
    LET val == Strip(raw)
    IN  IF val # "" THEN Ok(Some(val)) ELSE Ok(None)

\* cli.prompt_str on one line of input; ok is FALSE where the prompt prints
\* err and asks again
prompt_str(raw, allow_blank) ==
    LET val == Strip(raw)
    IN  IF val # "" THEN Ok(Some(val))
        ELSE IF allow_blank THEN Ok(None)
        ELSE Raise("Please enter a value.")

\* cli.prompt_int on one line of input
prompt_int(raw, allow_blank) ==
    LET val == Strip(raw)
    IN  IF val = "" /\ allow_blank THEN Ok(None)
        ELSE IF PyInt(val).ok THEN Ok(PyInt(val).val)
        ELSE Raise("Enter a valid integer.")

\* cli.prompt_decimal on one line of input
prompt_decimal(raw, allow_blank) ==
    LET val == Strip(raw)
    IN  IF val = "" /\ allow_blank THEN Ok(None)
        ELSE IF PyDecimal(val).ok THEN Ok(PyDecimal(val).val)
        ELSE Raise("Enter a valid number.")

\* cli.prompt_date on one line of input
prompt_date(raw, allow_blank) ==
    LET val == Strip(raw)
    IN  IF val = "" /\ allow_blank THEN Ok(None)
        ELSE IF StrpDate(val).ok THEN StrpDate(val)
        ELSE Raise("Enter a valid date in YYYY-MM-DD format.")

\* gui.parse_int(value)
parse_int(v) == IF v = "" THEN Ok(None) ELSE PyInt(v)

\* gui.parse_decimal(value)
parse_decimal(v) ==
    IF v = "" THEN Ok(None)
    ELSE IF PyDecimal(v).ok THEN PyDecimal(v) ELSE Raise("Invalid decimal")

\* gui.parse_date(value)
parse_date(v) ==
    IF v = "" THEN Ok(None)
    ELSE IF StrpDate(v).ok THEN StrpDate(v) ELSE Raise("Use YYYY-MM-DD")

\* Python's "x or d" on an Optional number: None and 0 are false
OrNum(v, d) == IF v = None \/ v[1] = 0 THEN Some(d) ELSE v

\* Python's "s or None" on a str
OrNone(s) == IF s = "" THEN None ELSE Some(s)

\* the message of the first prompt, in order, that does not accept its input
FirstErr(results) ==
    IF \A i \in DOMAIN results : results[i].ok THEN ""
    ELSE results[CHOOSE i \in DOMAIN results :
                    ~results[i].ok /\ \A j \in 1..(i - 1) : results[j].ok].err

(***************************************************************************)
(* State of the front ends                                                 *)
(***************************************************************************)
\* rows present when the program starts (the database is seeded beforehand)
Fixture ==
    [teams |-> (1 :> TeamRow(Some("Alpha"), Some("EU"), Some(2020)))
               @@ (2 :> TeamRow(Some("Beta"), Some("NA"), None))
               @@ (3 :> TeamRow(Some("Gamma"), Some("KR"), Some(2019))),
     players |-> (1 :> PlayerRow(Some("neo"), Some("PL"), Some("Rifler"), Some(1))),
     tournaments |-> (1 :> TournamentRow(Some("Major"), Some("ESL"), Some(1000),
                                         Some("2025-01-01"), Some("2025-01-05"),
                                         Some("Online"))),
     maps |-> (1 :> MapRow(Some("Mirage"))),
     matches |-> (1 :> MatchRow(Some(1), Some(1), Some(2), Some(1), Some(1),
                                Some("2025-01-02"), Some(3), Some(2), Some(1))),
     tournament_results |-> (1 :> ResultRow(Some(1), Some(1), Some(1), Some(500))),
     team_roster |-> (1 :> RosterRow(Some(1), Some(1), Some(TRUE)))]

\* each table's sequence continues after the seeded rows
FixtureSerial == [t \in Tables |-> Cardinality(DOMAIN Fixture[t]) + 1]

Frames == {"teams", "players", "tournaments", "matches", "tournament_results"}

\* a slip: the join is an inner one in effect, a missing reference shows
\* as an empty cell
NameOf_blank(st, tbl, col, ref, missing) ==
    IF ref # None /\ ref[1] \in DOMAIN st[tbl] THEN TextOf(st[tbl][ref[1]][col]) ELSE ""

NameOf(st, tbl, col, ref, missing) ==
    IF ref # None /\ ref[1] \in DOMAIN st[tbl] THEN TextOf(st[tbl][ref[1]][col]) ELSE missing

\* the rows a frame's refresh() selects, by row id (cells as the query returns them)
View(st, frame) ==
    CASE frame = "teams" ->
            [i \in DOMAIN st["teams"] |->
                LET r == st["teams"][i]
                IN  <<i, TextOf(r.team_name), TextOf(r.region),
                      IF r.founded_year = None THEN "-" ELSE IntToStr(r.founded_year[1])>>]
      [] frame = "players" ->
            [i \in DOMAIN st["players"] |->
                LET r == st["players"][i]
                IN  <<i, TextOf(r.player_name),
                      IF r.country = None THEN "-" ELSE r.country[1],
                      IF r.role = None THEN "-" ELSE r.role[1],
                      NameOf(st, "teams", "team_name", r.team_id, "Free Agent")>>]
      [] frame = "tournaments" ->
            [i \in DOMAIN st["tournaments"] |->
                LET r == st["tournaments"][i]
                IN  <<i, TextOf(r.name), r.organizer, r.prize_pool, r.start_date, r.end_date,
                      r.location>>]
      [] frame = "matches" ->
            [i \in {j \in DOMAIN st["matches"] :
                        /\ Exists(st, "tournaments", st["matches"][j].tournament_id)
                        /\ Exists(st, "teams", st["matches"][j].team1_id)
                        /\ Exists(st, "teams", st["matches"][j].team2_id)} |->
                LET r == st["matches"][i]
                IN  <<i, NameOf(st, "tournaments", "name", r.tournament_id, ""),
                      NameOf(st, "teams", "team_name", r.team1_id, ""),
                      NameOf(st, "teams", "team_name", r.team2_id, ""),
                      NameOf(st, "teams", "team_name", r.winner_team_id, "TBD"),
                      NameOf(st, "maps", "map_name", r.map_id, "-"),
                      r.match_date, r.best_of, r.team1_score, r.team2_score>>]
      [] frame = "tournament_results" ->
            [i \in {j \in DOMAIN st["tournament_results"] :
                        /\ Exists(st, "tournaments", st["tournament_results"][j].tournament_id)
                        /\ Exists(st, "teams", st["tournament_results"][j].team_id)} |->
                LET r == st["tournament_results"][i]
                IN  <<i, NameOf(st, "tournaments", "name", r.tournament_id, ""),
                      NameOf(st, "teams", "team_name", r.team_id, ""),
                      r.placement, r.earnings>>]

\* ORDER BY on text: the characters of the names in use, in code order
Alphabet == " -0123456789:ABCDEFGHIJKLMNOPQRSTUVWXYZ_abcdefghijklmnopqrstuvwxyz"

CharRank(c) == Find(Alphabet, c)

RECURSIVE StrLess(_, _)
StrLess(a, b) ==
    IF b = "" THEN FALSE
    ELSE IF a = "" THEN TRUE
    ELSE IF Char(a, 1) = Char(b, 1) THEN StrLess(Suffix(a, 2), Suffix(b, 2))
    ELSE CharRank(Char(a, 1)) < CharRank(Char(b, 1))

\* ORDER BY x [DESC] NULLS LAST on an optional text: -1 when a sorts before
\* b, 1 when after, 0 when the two do not differ in x
CmpText(a, b, desc) ==
    IF a = b THEN 0
    ELSE IF a = None THEN 1
    ELSE IF b = None THEN -1
    ELSE IF StrLess(a[1], b[1]) THEN (IF desc THEN 1 ELSE -1)
    ELSE (IF desc THEN -1 ELSE 1)

\* ORDER BY x on an optional number (ascending, nulls last)
CmpNum(a, b) ==
    IF a = b THEN 0
    ELSE IF a = None THEN 1
    ELSE IF b = None THEN -1
    ELSE IF a[1] < b[1] THEN -1 ELSE 1

\* seq, which is in order, with id i put after the rows that do not sort
\* after it
Place(seq, i, cmp) ==
    LET n == Cardinality({k \in DOMAIN seq : cmp[seq[k], i] <= 0})
    IN  (SubSeq(seq, 1, n) \o <<i>>) \o SubSeq(seq, n + 1, Len(seq))

RECURSIVE SortInto(_, _, _)
SortInto(done, rest, cmp) ==
    IF rest = {} THEN done
    ELSE LET i == CHOOSE x \in rest : \A y \in rest : x <= y
         IN  SortInto(Place(done, i, cmp), rest \ {i}, cmp)

\* the ids of S in the order of a query's ORDER BY: cmp[i, j] compares two
\* rows by the sort keys in turn; rows that no key tells apart come in id order
Sorted(S, cmp) == SortInto(<<>>, S, cmp)

\* the first of two comparisons that tells the rows apart
Then(c1, c2) == IF c1 # 0 THEN c1 ELSE c2

ByTeamName(st) ==
    Sorted(DOMAIN st["teams"],
           [i, j \in DOMAIN st["teams"] |->
                CmpText(st["teams"][i].team_name, st["teams"][j].team_name, FALSE)])

ByPlayerName(st) ==
    Sorted(DOMAIN st["players"],
           [i, j \in DOMAIN st["players"] |->
                CmpText(st["players"][i].player_name, st["players"][j].player_name, FALSE)])

\* ORDER BY start_date DESC NULLS LAST, name
ByStartDesc(st) ==
    Sorted(DOMAIN st["tournaments"],
           [i, j \in DOMAIN st["tournaments"] |->
                Then(CmpText(st["tournaments"][i].start_date, st["tournaments"][j].start_date,
                             TRUE),
                     CmpText(st["tournaments"][i].name, st["tournaments"][j].name, FALSE))])

ByMapName(st) ==
    Sorted(DOMAIN st["maps"],
           [i, j \in DOMAIN st["maps"] |->
                CmpText(st["maps"][i].map_name, st["maps"][j].map_name, FALSE)])

\* the start date of the tournament a row joins
StartOf(st, ref) ==
    IF ref # None /\ ref[1] \in DOMAIN st["tournaments"]
    THEN st["tournaments"][ref[1]].start_date ELSE None

\* ORDER BY m.match_date NULLS LAST, m.match_id over the joined rows
ByMatchDate(st) ==
    Sorted(DOMAIN View(st, "matches"),
           [i, j \in DOMAIN View(st, "matches") |->
                CmpText(st["matches"][i].match_date, st["matches"][j].match_date, FALSE)])

\* the ids of a frame's rows in the order of the ORDER BY of its refresh()
Order(st, frame) ==
    CASE frame = "teams" -> ByTeamName(st)
      [] frame = "players" -> ByPlayerName(st)
      [] frame = "tournaments" -> ByStartDesc(st)
      [] frame = "matches" -> ByMatchDate(st)
      [] frame = "tournament_results" ->
            \* ORDER BY t.start_date DESC NULLS LAST, r.placement
            Sorted(DOMAIN View(st, "tournament_results"),
                   [i, j \in DOMAIN View(st, "tournament_results") |->
                     Then(CmpText(StartOf(st, st["tournament_results"][i].tournament_id),
                                  StartOf(st, st["tournament_results"][j].tournament_id), TRUE),
                          CmpNum(st["tournament_results"][i].placement,
                                 st["tournament_results"][j].placement))])

\* the rows the console's list functions select, by row id
ListView(st, tbl) ==
    CASE tbl = "maps" ->
            [i \in DOMAIN st["maps"] |-> <<i, TextOf(st["maps"][i].map_name)>>]
      [] tbl = "team_roster" ->
            [i \in {j \in DOMAIN st["team_roster"] :
                        /\ st["team_roster"][j].team_id # None
                        /\ st["team_roster"][j].player_id # None
                        /\ Exists(st, "teams", st["team_roster"][j].team_id)
                        /\ Exists(st, "players", st["team_roster"][j].player_id)} |->
                LET r == st["team_roster"][i]
                IN  <<i, NameOf(st, "teams", "team_name", r.team_id, ""),
                      NameOf(st, "players", "player_name", r.player_id, ""), r.is_active>>]
      [] OTHER -> View(st, tbl)

\* the ids of the rows of a list function in the order of its ORDER BY
ListOrder(st, tbl) ==
    CASE tbl = "teams" -> ByTeamName(st)
      [] tbl = "players" -> ByPlayerName(st)
      [] tbl = "tournaments" -> ByStartDesc(st)
      [] tbl = "maps" -> ByMapName(st)
      [] tbl = "matches" -> ByMatchDate(st)
      [] tbl = "tournament_results" ->
            \* ORDER BY t.start_date NULLS LAST, r.placement
            Sorted(DOMAIN View(st, "tournament_results"),
                   [i, j \in DOMAIN View(st, "tournament_results") |->
                     Then(CmpText(StartOf(st, st["tournament_results"][i].tournament_id),
                                  StartOf(st, st["tournament_results"][j].tournament_id), FALSE),
                          CmpNum(st["tournament_results"][i].placement,
                                 st["tournament_results"][j].placement))])
      [] tbl = "team_roster" ->
            \* ORDER BY tm.team_name, p.player_name
            LET v == ListView(st, "team_roster")
            IN  Sorted(DOMAIN v,
                       [i, j \in DOMAIN v |->
                            Then(CmpText(Some(v[i][2]), Some(v[j][2]), FALSE),
                                 CmpText(Some(v[i][3]), Some(v[j][3]), FALSE))])

\* the rows of view in the given order
Listing(view, order) == [k \in DOMAIN order |-> view[order[k]]]

\* the values refresh() gives a dropdown over tbl: "" and one "id - label" per row
Options(st, tbl, col) ==
    {""} \cup {FormatOption(i, TextOf(st[tbl][i][col])) : i \in DOMAIN st[tbl]}

\* a frame after refresh(): the table reloaded (which drops the selection)
\* and the dropdowns refilled; the Update/Delete buttons keep their state
Refreshed(st, frame, armed) ==
    [tree |-> View(st, frame),
     order |-> Order(st, frame),
     sel |-> None,
     armed |-> armed,
     team_cb |-> IF frame \in {"players", "matches", "tournament_results"}
                 THEN Options(st, "teams", "team_name") ELSE {},
     tournament_cb |-> IF frame \in {"matches", "tournament_results"}
                       THEN Options(st, "tournaments", "name") ELSE {},
     map_cb |-> IF frame = "matches" THEN Options(st, "maps", "map_name") ELSE {}]

\* launch(): every frame is built, refreshes, and has its buttons disabled
Launched(st) == [f \in Frames |-> Refreshed(st, f, FALSE)]

\* on_select of a frame: the row picked, Update and Delete enabled
Selected(g, frame, id) == [g EXCEPT ![frame].sel = Some(id), ![frame].armed = TRUE]

\* clear_form of a frame: selection removed, Update and Delete disabled
Cleared(fr) == [fr EXCEPT !.sel = None, !.armed = FALSE]

\* get_selected_values(): the cells of the selected row, None without one
SelectedValues(fr) == IF fr.sel = None THEN None ELSE fr.tree[fr.sel[1]]

\* the ids a dropdown's values stand for
OfferedIds(values) == {parse_combo_id(v).val[1] : v \in values \ {""}}

NoOut ==
    [fe |-> "", op |-> "", entity |-> "", status |-> "", text |-> "", bar |-> "",
     signal |-> "", id |-> None, blank |-> {}, req |-> None, offered |-> {}]

\* what one user operation presented: status names the path the handler
\* took, text is the line printed or the dialog shown, bar the GUI status
\* bar, signal the exception text caught (if any); id is the row addressed,
\* blank the columns whose input was left blank, req the write request sent
\* to the store (None if none was) and offered the (table, id) options that
\* the operation listed for the relational fields
Out(fe, op, entity, status, text, bar, signal, id, blank, req, offered) ==
    [fe |-> fe, op |-> op, entity |-> entity, status |-> status, text |-> text,
     bar |-> bar, signal |-> signal, id |-> id, blank |-> blank, req |-> req,
     offered |-> offered]

\* no store call is going to fail
NoFault == [at |-> 0, sig |-> ""]

\* nothing listed yet
NoScreen == [entity |-> "", rows |-> <<>>]

\* no connection is open and none was made: open holds the connections
\* that are open, log what the last helper call did on its connection,
\* made the number of connections made so far
NoConns == [open |-> {}, log |-> <<>>, made |-> 0]

\* the smoke test has not started: pc is the statement of main() it stands
\* at, ids the identifiers it holds, before the store it started on,
\* updated the name it read back and err the exception that ended it
NoSmoke ==
    [pc |-> "idle",
     ids |-> [team |-> 0, player |-> 0, tournament |-> 0, match |-> 0, result |-> 0],
     before |-> <<>>, updated |-> None, err |-> ""]

NoShown == [fe |-> "", ctx |-> "", kind |-> "", sig |-> "", text |-> "", bar |-> ""]

NoPick == [done |-> FALSE, ok |-> FALSE, val |-> None, err |-> ""]

EmptyMemo == [x \in {} |-> NoShown]

\* the state in which no front end has done anything yet
Idle ==
    /\ store = Fixture
    /\ serial = FixtureSerial
    /\ out = NoOut
    /\ calls = <<>>
    /\ steps = 0
    /\ value = ""
    /\ picked = NoPick
    /\ shown = NoShown
    /\ memo = EmptyMemo
    /\ fault = NoFault
    /\ cli = "running"
    /\ trail = <<>>
    /\ screen = NoScreen
    /\ input = <<>> /\ conns = NoConns /\ smoke = NoSmoke

(***************************************************************************)
(* Selector harness: parse_combo_id applied to a dropdown's text           *)
(***************************************************************************)
ComboInputs ==
    {a \o b \o c : a \in {"", "1", "2", "12", " 3", "3 ", "x", "-1", "1_0"},
                   b \in {"", " - ", "-", " -  "},
                   c \in {"", "Alpha", "7", "A - B"}}

InitSel ==
    /\ store = Fixture /\ serial = FixtureSerial /\ gui = Launched(Fixture)
    /\ out = NoOut /\ calls = <<>> /\ steps = 0
    /\ value \in ComboInputs \cup Options(Fixture, "teams", "team_name")
    /\ picked = NoPick
    /\ shown = NoShown /\ memo = EmptyMemo
    /\ limit = 0 /\ fault = NoFault /\ cli = "running" /\ trail = <<>> /\ screen = NoScreen
    /\ input = <<>> /\ conns = NoConns /\ smoke = NoSmoke

ParseCombo ==
    /\ ~picked.done
    /\ UNCHANGED input
    /\ picked' = [done |-> TRUE, ok |-> parse_combo_id(value).ok,
                  val |-> parse_combo_id(value).val, err |-> parse_combo_id(value).err]
    /\ UNCHANGED <<store, serial, gui, out, calls, steps, value, shown, memo, limit, fault,
                   cli, trail, screen, conns, smoke>>

NextSel == ParseCombo

SpecSel == InitSel /\ [][NextSel]_vars

(***************************************************************************)
(* Translator harness: failure signals presented by either front end       *)
(***************************************************************************)
\* failure signals presented in one run of the program
MaxTranslations == 2

\* signals the store raises, each with the rule of the store it reports
Signals ==
    {[kind |-> "region", text |-> SigCheck("teams", "team_region_chk", "3, Gamma, , null")],
     [kind |-> "dup_team", text |-> SigUnique("teams_team_name_key", "team_name", "Alpha")],
     [kind |-> "dup_team",
      text |-> SigUnique("teams_team_name_key", "team_name", "winner_valid_chk")],
     [kind |-> "player_name",
      text |-> SigCheck("players", "player_name_chk", "2,  , null, null, null")],
     [kind |-> "teams_equal",
      text |-> SigCheck("matches", "different_teams_chk", "2, 1, 1, 1, 3, null, null, 1, 0, 0")],
     [kind |-> "winner",
      text |-> SigCheck("matches", "winner_valid_chk", "2, 1, 1, 2, 3, null, null, 1, 0, 0")],
     [kind |-> "roster_cap", text |-> SigRosterCap("1")],
     [kind |-> "other", text |-> SigUnique("maps_map_name_key", "map_name", "Mirage")],
     [kind |-> "other", text |-> SigUnique("maps_map_name_key", "map_name", "Active Players 5")],
     [kind |-> "other",
      text |-> SigCheck("tournaments", "tournaments_prize_pool_check",
                        "2, Active Players Cup, null, -5, null, null, null")],
     [kind |-> "other",
      text |-> SigFk("players", "players_team_id_fkey", "team_id", "9", "teams")],
     [kind |-> "other", text |-> SigBadInt("-")],
     [kind |-> "other", text |-> SigConn]}

Contexts == {"Creating team", "Updating match"}

InitErr ==
    /\ store = Fixture /\ serial = FixtureSerial /\ gui = Launched(Fixture)
    /\ out = NoOut /\ calls = <<>> /\ steps = 0
    /\ value = "" /\ picked = NoPick
    /\ shown = NoShown /\ memo = EmptyMemo
    /\ limit = MaxTranslations /\ fault = NoFault /\ cli = "running" /\ trail = <<>>
    /\ screen = NoScreen
    /\ input = <<>> /\ conns = NoConns /\ smoke = NoSmoke

\* the first presentation of each signal by each front end
Remember(s) ==
    IF <<s.fe, s.sig>> \in DOMAIN memo THEN memo ELSE (<<s.fe, s.sig>> :> s) @@ memo

\* an except branch of a CLI handler: print_error(context, e)
CliPrintError(ctx, s) ==
    /\ steps < MaxTranslations
    /\ UNCHANGED input
    /\ LET now == [fe |-> "cli", ctx |-> ctx, kind |-> s.kind, sig |-> s.text,
                   text |-> print_error(ctx, s.text), bar |-> ""]
       IN  shown' = now /\ memo' = Remember(now)
    /\ steps' = steps + 1
    /\ UNCHANGED <<store, serial, gui, out, calls, value, picked, limit, fault, cli, trail,
                   screen, conns, smoke>>

\* an except branch of a GUI handler: self.error(str(e)) shows the dialog
\* and sets the status bar to msg
GuiError(s) ==
    /\ steps < MaxTranslations
    /\ UNCHANGED input
    /\ LET now == [fe |-> "gui", ctx |-> "", kind |-> s.kind, sig |-> s.text,
                   text |-> error(s.text).text, bar |-> error(s.text).bar]
       IN  shown' = now /\ memo' = Remember(now)
    /\ steps' = steps + 1
    /\ UNCHANGED <<store, serial, gui, out, calls, value, picked, limit, fault, cli, trail,
                   screen, conns, smoke>>

NextErr ==
    \/ \E ctx \in Contexts, s \in Signals : CliPrintError(ctx, s)
    \/ \E s \in Signals : GuiError(s)

SpecErr == InitErr /\ [][NextErr]_vars

(***************************************************************************)
(* Properties of the selector                                              *)
(***************************************************************************)
\* the "<id> - <label>" presentation: decimal digits, then " - ", then a label
WellFormedOption(v) ==
    /\ Contains(v, " - ")
    /\ SplitHead(v, " - ") # ""
    /\ AllDigits(SplitHead(v, " - "))

\* C4: parse_combo_id maps blank input to None, a well-formed
\* "<id> - <label>" string to <id>, and every other string (a bare typed
\* identifier included) to the InvalidSelection failure
C4_SelectorTotalContract ==
    picked.done =>
        IF value = "" THEN picked.ok /\ picked.val = None
        ELSE IF WellFormedOption(value)
             THEN picked.ok /\ picked.val = PyInt(SplitHead(value, " - ")).val
             ELSE ~picked.ok /\ picked.err = "Pick a value from the dropdown"

(***************************************************************************)
(* Properties of the translator                                            *)
(***************************************************************************)
\* the category part of a presentation: the CLI prints it after
\* "[Error] <context>: ", the GUI shows it as the dialog's text
CategoryOf(s) ==
    IF s.fe = "cli" THEN Suffix(s.text, Len("[Error] " \o s.ctx \o ": ") + 1) ELSE s.text

\* the fixed table, by the rule of the store a signal reports
TableCategory(kind, sig) ==
    CASE kind = "region" -> "region is required for a team"
      [] kind = "dup_team" -> "team name must be unique"
      [] kind = "player_name" -> "player name is required"
      [] kind = "teams_equal" -> "team1 and team2 must be different"
      [] kind = "winner" -> "winner must be one of the two teams"
      [] kind = "roster_cap" -> "roster cap is 5 active players"
      [] OTHER -> FirstLine(sig)

\* C6: for every store failure signal the translator returns the category
\* of the fixed table, and for a signal of no row of the table the first
\* line of the signal's message
C6_TranslatorTable ==
    shown.sig # "" => CategoryOf(shown) = TableCategory(shown.kind, shown.sig)

C8_FrontEndsTranslateAlike ==
    \A fe \in {"cli", "gui"} :
        (shown.sig # "" /\ <<fe, shown.sig>> \in DOMAIN memo)
            => CategoryOf(shown) = CategoryOf(memo[<<fe, shown.sig>>])

\* C8 witness: a winner-check signal shown by the GUI and then printed by the CLI
C8_Witness ==
    /\ shown.fe = "cli"
    /\ shown.kind = "winner"
    /\ <<"gui", shown.sig>> \in DOMAIN memo
    /\ CategoryOf(shown) = "winner must be one of the two teams"

(***************************************************************************)
(* CLI handlers: create                                                    *)
(***************************************************************************)
\* user operations in one run of the program
MaxOps == 1

\* the columns whose line of input (raws[i] for cols[i]) was blank
BlankOf(cols, raws) == {cols[i] : i \in {j \in DOMAIN cols : Strip(raws[j]) = ""}}

\* print_rows of a list function: the table the console shows
Printed(st, tbl) == [entity |-> tbl, rows |-> Listing(ListView(st, tbl), ListOrder(st, tbl))]

\* an exception no handler catches: the list read that opens the update and
\* delete handlers stands outside their try, and menu_loop has no except
\* clause but for KeyboardInterrupt, so the process ends with a traceback
CliCrash(op, entity, pre) ==
    /\ out' = Out("cli", op, entity, "crashed", "psycopg2.OperationalError: " \o fault.sig, "",
                  fault.sig, None, {}, None, {})
    /\ calls' = calls \o SubSeq(pre, 1, fault.at)
    /\ cli' = "dead"
    /\ fault' = NoFault
    /\ steps' = steps + 1
    /\ UNCHANGED <<store, serial, gui, value, picked, shown, memo, limit, trail, screen, conns, smoke>>

\* a CLI handler that ends without a write: a prompt is asking again, or
\* "No changes provided."; pre holds the reads it made before
CliStop(op, entity, status, text, pre, id, blank) ==
    IF fault.at \in DOMAIN pre THEN CliCrash(op, entity, pre)
    ELSE /\ out' = Out("cli", op, entity, status, text, "", "", id, blank, None, {})
         /\ calls' = calls \o pre
         /\ screen' = IF pre = <<>> THEN screen ELSE Printed(store, entity)
         /\ fault' = IF pre = <<>> THEN fault ELSE NoFault
         /\ steps' = steps + 1
         /\ UNCHANGED <<store, serial, gui, value, picked, shown, memo, limit, cli, trail, conns, smoke>>

\* is_active of a roster entry, None when the entry is not there
ActiveOf(st, id) ==
    IF id \in DOMAIN st["team_roster"] THEN st["team_roster"][id].is_active ELSE None

\* one roster request as the store served it: who sent it, what it was and
\* what is_active the entry held before and after
Served(who, kind, id, before, after) ==
    [who |-> who, kind |-> kind, id |-> id, before |-> ActiveOf(before, id),
     after |-> ActiveOf(after, id)]

\* get_conn around the n-th store call of an operation: when the store is
\* unreachable the helper raises and nothing is committed, else the call
\* has the outcome reply
Reached(n, reply) ==
    IF fault.at = n THEN Reply(FALSE, store, serial, 0, fault.sig) ELSE reply

\* the try/except of a CLI handler around its one write: done is printed
\* when the helper returns, print_error(ctx, e) when it raises
CliWrite(op, entity, ctx, done, pre, call, reply, id, blank) ==
    IF fault.at \in DOMAIN pre THEN CliCrash(op, entity, pre)
    ELSE LET got == Reached(Len(pre) + 1, reply)
         IN  /\ store' = got.store
             /\ serial' = got.serial
             /\ calls' = (calls \o pre) \o <<call>>
             /\ out' = IF got.ok
                       THEN Out("cli", op, entity, "ok", done, "", "", id, blank, Some(call), {})
                       ELSE Out("cli", op, entity, "failed", print_error(ctx, got.err), "",
                                got.err, id, blank, Some(call), {})
             /\ screen' = IF pre = <<>> THEN screen ELSE Printed(store, entity)
             /\ trail' = IF entity = "team_roster" /\ fault.at # Len(pre) + 1
                         THEN Append(trail,
                                     Served("cli", call.kind,
                                            IF call.kind = "insert" THEN got.id
                                            ELSE call.params[1],
                                            store, got.store))
                         ELSE trail
             /\ fault' = NoFault
             /\ steps' = steps + 1
             /\ UNCHANGED <<gui, value, picked, shown, memo, limit, cli, conns, smoke>>

\* a CLI create handler: its prompts in order (results, one per line of
\* input in), then the INSERT with params
CliCreate(tbl, ctx, done, in, results, call, reply) ==
    /\ steps < limit
    /\ input' = in
    /\ cli = "running"
    /\ IF FirstErr(results) # ""
       THEN CliStop("create", tbl, "reprompt", FirstErr(results), <<>>, None,
                    BlankOf(Columns(tbl), in))
       ELSE CliWrite("create", tbl, ctx, done \o IntToStr(reply.id) \o ".", <<>>, call, reply,
                     None, BlankOf(Columns(tbl), in))

TeamInputs == {"Delta", "Alpha", ""} \X {"KR", " "} \X {"", "2021", "x"}

create_team(in) ==
    LET name == prompt_str(in[1], FALSE)
        region == prompt_str(in[2], FALSE)
        founded_year == prompt_int(in[3], TRUE)
        params == <<name.val, region.val, founded_year.val>>
    IN  CliCreate("teams", "Creating team", "Created team with id ", in,
                  <<name, region, founded_year>>,
                  Call("insert", "teams", Columns("teams"), params),
                  Insert(store, serial, "teams", params))

PlayerInputs == {"s1mple", " "} \X {"", "UA"} \X {""} \X {"", "1", "9", "2 - Beta"}

create_player(in) ==
    LET name == prompt_str(in[1], FALSE)
        country == prompt_str(in[2], TRUE)
        role == prompt_str(in[3], TRUE)
        team_id == prompt_int(in[4], TRUE)
        params == <<name.val, country.val, role.val, team_id.val>>
    IN  CliCreate("players", "Creating player", "Created player with id ", in,
                  <<name, country, role, team_id>>,
                  Call("insert", "players", Columns("players"), params),
                  Insert(store, serial, "players", params))

TournamentInputs ==
    {"Cup", " "} \X {""} \X {"", "500", "-5", "0"} \X {"", "2025-03-01", "2025-02-30"}
        \X {""} \X {"Oslo"}

create_tournament(in) ==
    LET name == prompt_str(in[1], FALSE)
        organizer == prompt_str(in[2], TRUE)
        prize == prompt_decimal(in[3], TRUE)
        start == prompt_date(in[4], TRUE)
        end == prompt_date(in[5], TRUE)
        location == prompt_str(in[6], TRUE)
        params == <<name.val, organizer.val, OrNum(prize.val, 0), start.val, end.val,
                    location.val>>
    IN  CliCreate("tournaments", "Creating tournament", "Created tournament with id ", in,
                  <<name, organizer, prize, start, end, location>>,
                  Call("insert", "tournaments", Columns("tournaments"), params),
                  Insert(store, serial, "tournaments", params))

MapInputs == {<<"Nuke">>, <<"Mirage">>, <<"">>, <<"Active Players 5">>}

create_map(in) ==
    LET name == prompt_str(in[1], FALSE)
        params == <<name.val>>
    IN  CliCreate("maps", "Creating map", "Created map with id ", in, <<name>>,
                  Call("insert", "maps", Columns("maps"), params),
                  Insert(store, serial, "maps", params))

\* lines of input for the nine prompts of a match: every pairing of two
\* teams with every kind of winner, and one field at a time made blank,
\* unknown or malformed
MatchInputs ==
    ({"1"} \X {"1", "2"} \X {"1", "2"} \X {"", "1", "3", "9"} \X {""} \X {""}
        \X {""} \X {""} \X {""})
    \cup {<<"", "1", "2", "", "", "", "", "", "">>,
          <<"9", "1", "1", "3", "", "", "", "", "">>,
          <<"9", "1", "2", "", "", "", "", "", "">>,
          <<"1", "", "2", "", "", "", "", "", "">>,
          <<"1", "1", " ", "", "", "", "", "", "">>,
          <<"1", "2", "2", "2", "9", "bad", "", "", "">>,
          <<"1", "2", "3", "3", "1", "2025-02-03", "3", "1", "2">>,
          <<"1", "1", "2", "", "", "", "0", "0", "0">>,
          <<"1", "1", "2", "", "", "", "x", "", "">>}

\* a slip: the console compares the two teams itself and asks again
create_match_checked(in) ==
    LET tournament_id == prompt_int(in[1], FALSE)
        team1_id == prompt_int(in[2], FALSE)
        team2_id == prompt_int(in[3], FALSE)
        winner_id == prompt_int(in[4], TRUE)
        map_id == prompt_int(in[5], TRUE)
        match_date == prompt_date(in[6], TRUE)
        best_of == prompt_int(in[7], TRUE)
        team1_score == prompt_int(in[8], TRUE)
        team2_score == prompt_int(in[9], TRUE)
        params == <<tournament_id.val, team1_id.val, team2_id.val, winner_id.val, map_id.val,
                    match_date.val, OrNum(best_of.val, 1), OrNum(team1_score.val, 0),
                    OrNum(team2_score.val, 0)>>
        differ == IF team1_id.ok /\ team2_id.ok /\ team1_id.val = team2_id.val
                  THEN Raise("team1 and team2 must be different") ELSE Ok(None)
    IN  CliCreate("matches", "Creating match", "Created match with id ", in,
                  <<tournament_id, team1_id, team2_id, differ, winner_id, map_id, match_date,
                    best_of, team1_score, team2_score>>,
                  Call("gate", "matches", Columns("matches"), params),
                  ValidateAndInsertMatch(store, serial, params))

create_match(in) ==
    LET tournament_id == prompt_int(in[1], FALSE)
        team1_id == prompt_int(in[2], FALSE)
        team2_id == prompt_int(in[3], FALSE)
        winner_id == prompt_int(in[4], TRUE)
        map_id == prompt_int(in[5], TRUE)
        match_date == prompt_date(in[6], TRUE)
        best_of == prompt_int(in[7], TRUE)
        team1_score == prompt_int(in[8], TRUE)
        team2_score == prompt_int(in[9], TRUE)
        params == <<tournament_id.val, team1_id.val, team2_id.val, winner_id.val, map_id.val,
                    match_date.val, OrNum(best_of.val, 1), OrNum(team1_score.val, 0),
                    OrNum(team2_score.val, 0)>>
    IN  CliCreate("matches", "Creating match", "Created match with id ", in,
                  <<tournament_id, team1_id, team2_id, winner_id, map_id, match_date, best_of,
                    team1_score, team2_score>>,
                  Call("gate", "matches", Columns("matches"), params),
                  ValidateAndInsertMatch(store, serial, params))

ResultInputs == {"1", ""} \X {"2", "9"} \X {"2", "0", ""} \X {"", "100"}

create_result(in) ==
    LET tournament_id == prompt_int(in[1], FALSE)
        team_id == prompt_int(in[2], FALSE)
        placement == prompt_int(in[3], FALSE)
        earnings == prompt_decimal(in[4], TRUE)
        params == <<tournament_id.val, team_id.val, placement.val, OrNum(earnings.val, 0)>>
    IN  CliCreate("tournament_results", "Creating result",
                  "Created tournament result with id ", in,
                  <<tournament_id, team_id, placement, earnings>>,
                  Call("insert", "tournament_results", Columns("tournament_results"), params),
                  Insert(store, serial, "tournament_results", params))

RosterInputs == {"1", "2", ""} \X {"1", "9", ""} \X {"", "Yes", "n"}

\* a slip: an entry that the store turned down is stored as not active
add_to_roster_benched(in) ==
    LET team_id == prompt_int(in[1], FALSE)
        player_id == prompt_int(in[2], FALSE)
        is_active == prompt_str(in[3], TRUE)
        active_bool == IF is_active.val = None THEN TRUE
                       ELSE Char(Lower(is_active.val[1]), 1) = "y"
        params == <<team_id.val, player_id.val, Some(active_bool)>>
        first == Insert(store, serial, "team_roster", params)
        again == Insert(store, serial, "team_roster", <<team_id.val, player_id.val, Some(FALSE)>>)
    IN  CliCreate("team_roster", "Adding to roster", "Added roster entry id ", in,
                  <<team_id, player_id, is_active>>,
                  Call("insert", "team_roster", Columns("team_roster"), params),
                  IF first.ok THEN first
                  ELSE Reply(FALSE, again.store, again.serial, 0, first.err))

add_to_roster(in) ==
    LET team_id == prompt_int(in[1], FALSE)
        player_id == prompt_int(in[2], FALSE)
        is_active == prompt_str(in[3], TRUE)
        active_bool == IF is_active.val = None THEN TRUE
                       ELSE Char(Lower(is_active.val[1]), 1) = "y"
        params == <<team_id.val, player_id.val, Some(active_bool)>>
    IN  CliCreate("team_roster", "Adding to roster", "Added roster entry id ", in,
                  <<team_id, player_id, is_active>>,
                  Call("insert", "team_roster", Columns("team_roster"), params),
                  Insert(store, serial, "team_roster", params))

(***************************************************************************)
(* GUI handlers: create                                                    *)
(***************************************************************************)
\* the reads of a frame's refresh(), in order
RefreshCalls(frame) ==
    ((<<Call("select", frame, <<>>, <<>>)>>
      \o (IF frame \in {"matches", "tournament_results"}
          THEN <<Call("select", "tournaments", <<>>, <<>>)>> ELSE <<>>))
      \o (IF frame \in {"players", "matches", "tournament_results"}
          THEN <<Call("select", "teams", <<>>, <<>>)>> ELSE <<>>))
    \o (IF frame = "matches" THEN <<Call("select", "maps", <<>>, <<>>)>> ELSE <<>>)

\* the (table, id) pairs that the dropdowns of a frame list
Offered(fr) ==
    ({<<"teams", i>> : i \in OfferedIds(fr.team_cb)}
     \cup {<<"tournaments", i>> : i \in OfferedIds(fr.tournament_cb)})
    \cup {<<"maps", i>> : i \in OfferedIds(fr.map_cb)}

\* a frame whose refresh() raised at its read number lost: set_tree ran only
\* if the rows were read (lost > 1), the dropdowns keep their old values
HalfRefreshed(st, frame, lost) ==
    IF lost = 1 THEN gui[frame]
    ELSE [gui[frame] EXCEPT !.tree = View(st, frame), !.order = Order(st, frame), !.sel = None]

\* a GUI handler that ends in self.error(msg) before any write; signal is
\* the text of the exception caught, "" when msg is the handler's own;
\* status tells a refusal ("rejected") from "nothing to update" ("nochange")
GuiStop(frame, op, status, msg, signal, id, blank) ==
    /\ out' = Out("gui", op, frame, status, error(msg).text, error(msg).bar, signal, id,
                  blank, None, Offered(gui[frame]))
    /\ steps' = steps + 1
    /\ UNCHANGED <<store, serial, gui, calls, value, picked, shown, memo, limit, fault, cli,
                   trail, screen, conns, smoke>>

\* a slip: the handler does not reload the table after its write
GuiWrite_stale(frame, op, info, bar, call, reply, id, blank, clear) ==
    LET got == Reached(1, reply)
    IN  /\ store' = got.store
        /\ serial' = got.serial
        /\ calls' = calls \o <<call>>
        /\ gui' = IF got.ok /\ clear THEN [gui EXCEPT ![frame] = Cleared(gui[frame])] ELSE gui
        /\ out' = IF ~got.ok
                  THEN Out("gui", op, frame, "failed", error(got.err).text, error(got.err).bar,
                           got.err, id, blank, Some(call), Offered(gui[frame]))
                  ELSE Out("gui", op, frame, "ok", info, bar, "", id, blank, Some(call),
                           Offered(gui[frame]))
        /\ fault' = NoFault
        /\ steps' = steps + 1
        /\ UNCHANGED <<value, picked, shown, memo, limit, cli, trail, screen, conns, smoke>>

\* the try/except of a GUI handler around its one write: on return the
\* dialog info (if any), refresh(), the status bar and, if clear,
\* clear_form(); on an exception self.error(str(e))
GuiWrite(frame, op, info, bar, call, reply, id, blank, clear) ==
    LET got == Reached(1, reply)
        \* the read of refresh() that fails, 0 when none does
        lost == IF fault.at - 1 \in DOMAIN RefreshCalls(frame) THEN fault.at - 1 ELSE 0
    IN  /\ store' = got.store
        /\ serial' = got.serial
        /\ calls' = IF ~got.ok THEN calls \o <<call>>
                    ELSE IF lost = 0 THEN (calls \o <<call>>) \o RefreshCalls(frame)
                    ELSE (calls \o <<call>>) \o SubSeq(RefreshCalls(frame), 1, lost)
        /\ gui' = IF ~got.ok THEN gui
                  ELSE IF lost # 0 THEN [gui EXCEPT ![frame] = HalfRefreshed(got.store, frame, lost)]
                  ELSE IF clear
                       THEN [gui EXCEPT ![frame] = Cleared(Refreshed(got.store, frame, FALSE))]
                       ELSE [gui EXCEPT ![frame] = Refreshed(got.store, frame, gui[frame].armed)]
        /\ out' = IF ~got.ok
                  THEN Out("gui", op, frame, "failed", error(got.err).text, error(got.err).bar,
                           got.err, id, blank, Some(call), Offered(gui[frame]))
                  ELSE IF lost # 0
                  THEN Out("gui", op, frame, "failed", error(fault.sig).text,
                           error(fault.sig).bar, fault.sig, id, blank, Some(call),
                           Offered(gui[frame]))
                  ELSE Out("gui", op, frame, "ok", info, bar, "", id, blank, Some(call),
                           Offered(gui[frame]))
        /\ fault' = NoFault
        /\ steps' = steps + 1
        /\ UNCHANGED <<value, picked, shown, memo, limit, cli, trail, screen, conns, smoke>>

\* a GUI create handler: the required-field check (missing, with its
\* message), the parsers in order (results), then the INSERT
GuiCreate(frame, noun, in, missing, msg, results, call, reply) ==
    /\ steps < limit
    /\ input' = in
    /\ IF missing
       THEN GuiStop(frame, "create", "rejected", msg, "", None, BlankOf(Columns(frame), in))
       ELSE IF FirstErr(results) # ""
       THEN GuiStop(frame, "create", "rejected", FirstErr(results), FirstErr(results), None,
                    BlankOf(Columns(frame), in))
       ELSE GuiWrite(frame, "create", "Created " \o noun \o " " \o IntToStr(reply.id),
                     "Form cleared", call, reply, None, BlankOf(Columns(frame), in), TRUE)

TeamsFrame_create(in) ==
    LET founded_year == parse_int(in[3])
        params == <<Some(in[1]), Some(in[2]), founded_year.val>>
    IN  GuiCreate("teams", "team", in, Strip(in[1]) = "" \/ Strip(in[2]) = "",
                  "team name and region are required", <<founded_year>>,
                  Call("insert", "teams", Columns("teams"), params),
                  Insert(store, serial, "teams", params))

\* in: the three entries and the team dropdown's value
PlayersFrame_create(in) ==
    LET team_id == parse_combo_id(in[4])
        params == <<Some(in[1]), OrNone(in[2]), OrNone(in[3]), team_id.val>>
    IN  GuiCreate("players", "player", in, Strip(in[1]) = "", "player name is required",
                  <<team_id>>,
                  Call("insert", "players", Columns("players"), params),
                  Insert(store, serial, "players", params))

TournamentsFrame_create(in) ==
    LET prize_val == parse_decimal(in[3])
        start_date == parse_date(in[4])
        end_date == parse_date(in[5])
        params == <<Some(in[1]), OrNone(in[2]), OrNum(prize_val.val, 0), start_date.val,
                    end_date.val, OrNone(in[6])>>
    IN  GuiCreate("tournaments", "tournament", in, Strip(in[1]) = "",
                  "tournament name is required", <<prize_val, start_date, end_date>>,
                  Call("insert", "tournaments", Columns("tournaments"), params),
                  Insert(store, serial, "tournaments", params))

\* in: the five dropdowns' values, then the four entries
MatchesFrame_create(in) ==
    LET tid == parse_combo_id(in[1])
        team1 == parse_combo_id(in[2])
        team2 == parse_combo_id(in[3])
        winner == parse_combo_id(in[4])
        map_id == parse_combo_id(in[5])
        match_date == parse_date(in[6])
        best_of == parse_int(in[7])
        t1s == parse_int(in[8])
        t2s == parse_int(in[9])
        params == <<tid.val, team1.val, team2.val, winner.val, map_id.val, match_date.val,
                    OrNum(best_of.val, 1), OrNum(t1s.val, 0), OrNum(t2s.val, 0)>>
    IN  GuiCreate("matches", "match", in,
                  /\ tid.ok /\ team1.ok /\ team2.ok
                  /\ (tid.val = None \/ team1.val = None \/ team2.val = None),
                  "tournament and both teams are required",
                  <<tid, team1, team2, winner, map_id, match_date, best_of, t1s, t2s>>,
                  Call("gate", "matches", Columns("matches"), params),
                  ValidateAndInsertMatch(store, serial, params))

\* in: the two dropdowns' values, then the two entries
ResultsFrame_create(in) ==
    LET tid == parse_combo_id(in[1])
        team == parse_combo_id(in[2])
        placement_val == parse_int(in[3])
        earnings_val == parse_decimal(in[4])
        params == <<tid.val, team.val, placement_val.val, OrNum(earnings_val.val, 0)>>
    IN  GuiCreate("tournament_results", "result", in,
                  Strip(in[1]) = "" \/ Strip(in[2]) = "" \/ Strip(in[3]) = "",
                  "tournament, team, placement are required",
                  <<tid, team, placement_val, earnings_val>>,
                  Call("insert", "tournament_results", Columns("tournament_results"), params),
                  Insert(store, serial, "tournament_results", params))

\* what the user can have in the match form: values of the dropdowns as
\* they are, and entries typed
MatchForms(fr) ==
    ((fr.tournament_cb \ {""}) \X fr.team_cb \X fr.team_cb \X fr.team_cb \X {""} \X {""}
        \X {""} \X {""} \X {""})
    \cup {<<"", t, t, "", m, "", "", "", "">> : t \in fr.team_cb, m \in fr.map_cb}
    \cup {<<c, t, t, t, "", d, b, "0", "2">> :
            c \in fr.tournament_cb \ {""}, t \in fr.team_cb \ {""},
            d \in {"2025-02-03", " "}, b \in {"3", "0", "x"}}

InitCreate ==
    /\ Idle
    /\ gui = Launched(Fixture)
    /\ limit = MaxOps

NextCreate ==
    \/ \E in \in TeamInputs : create_team(in)
    \/ \E in \in PlayerInputs : create_player(in)
    \/ \E in \in TournamentInputs : create_tournament(in)
    \/ \E in \in MapInputs : create_map(in)
    \/ \E in \in MatchInputs : create_match(in)
    \/ \E in \in ResultInputs : create_result(in)
    \/ \E in \in RosterInputs : add_to_roster(in)
    \/ \E in \in TeamInputs : TeamsFrame_create(in)
    \/ \E in \in {"s1mple", " "} \X {"", "UA"} \X {""} \X gui["players"].team_cb :
            PlayersFrame_create(in)
    \/ \E in \in TournamentInputs : TournamentsFrame_create(in)
    \/ \E in \in MatchForms(gui["matches"]) : MatchesFrame_create(in)
    \/ \E in \in gui["tournament_results"].tournament_cb \X gui["tournament_results"].team_cb
                    \X {"2", "0", " "} \X {"", "100"} :
            ResultsFrame_create(in)

SpecCreate == InitCreate /\ [][NextCreate]_vars

(***************************************************************************)
(* CLI handlers: update                                                    *)
(***************************************************************************)
\* the elements of seq at the positions keep, in order
Pick(seq, keep) ==
    [k \in 1..Cardinality(keep) |->
        seq[CHOOSE i \in keep : Cardinality({j \in keep : j <= i}) = k]]

\* a slip: the statement names every column, given or not
CliUpdate_fullrow(tbl, ctx, done, in, results) ==
    LET pre == <<Call("select", tbl, <<>>, <<>>)>>
        id == results[1].val
        vals == [k \in 1..(Len(results) - 1) |-> results[k + 1].val]
        keep == {i \in DOMAIN vals : vals[i] # None}
        cols == Columns(tbl)
        params == Append(vals, id[1])
        blank == BlankOf(Columns(tbl), Tail(in))
    IN  /\ steps < limit
        /\ input' = in
        /\ cli = "running"
        /\ IF FirstErr(results) # ""
           THEN CliStop("update", tbl, "reprompt", FirstErr(results), pre, id, blank)
           ELSE IF keep = {}
           THEN CliStop("update", tbl, "nochange", "No changes provided.", pre, id, blank)
           ELSE CliWrite("update", tbl, ctx, done, pre, Call("update", tbl, cols, params),
                         Update(store, serial, tbl, cols, params), id, blank)

\* a CLI update handler: the list, the id prompt and the field prompts
\* (results, one per line of input in), the updates dict of the values
\* that are not None, then "No changes provided." or the UPDATE built
\* from the dict with the id as last parameter
CliUpdate(tbl, ctx, done, in, results) ==
    LET pre == <<Call("select", tbl, <<>>, <<>>)>>
        id == results[1].val
        vals == [k \in 1..(Len(results) - 1) |-> results[k + 1].val]
        keep == {i \in DOMAIN vals : vals[i] # None}
        cols == Pick(Columns(tbl), keep)
        params == Append(Pick(vals, keep), id[1])
        blank == BlankOf(Columns(tbl), Tail(in))
    IN  /\ steps < limit
        /\ input' = in
        /\ cli = "running"
        /\ IF FirstErr(results) # ""
           THEN CliStop("update", tbl, "reprompt", FirstErr(results), pre, id, blank)
           ELSE IF keep = {}
           THEN CliStop("update", tbl, "nochange", "No changes provided.", pre, id, blank)
           ELSE CliWrite("update", tbl, ctx, done, pre, Call("update", tbl, cols, params),
                         Update(store, serial, tbl, cols, params), id, blank)

update_team(in) ==
    LET results == <<prompt_int(in[1], FALSE), prompt_str(in[2], TRUE), prompt_str(in[3], TRUE),
                       prompt_int(in[4], TRUE)>>
    IN  CliUpdate("teams", "Updating team", "Team updated.", in, results)

update_player(in) ==
    LET results == <<prompt_int(in[1], FALSE), prompt_str(in[2], TRUE), prompt_str(in[3], TRUE),
                       prompt_str(in[4], TRUE), prompt_int(in[5], TRUE)>>
    IN  CliUpdate("players", "Updating player", "Player updated.", in, results)

update_tournament(in) ==
    LET results == <<prompt_int(in[1], FALSE), prompt_str(in[2], TRUE), prompt_str(in[3], TRUE),
                       prompt_decimal(in[4], TRUE), prompt_date(in[5], TRUE),
                       prompt_date(in[6], TRUE), prompt_str(in[7], TRUE)>>
    IN  CliUpdate("tournaments", "Updating tournament", "Tournament updated.", in, results)

update_map(in) ==
    LET results == <<prompt_int(in[1], FALSE), prompt_str(in[2], TRUE)>>
    IN  CliUpdate("maps", "Updating map", "Map updated.", in, results)

\* a slip: the update sent through the validation routine of creation
update_match_gated(in) ==
    LET results == <<prompt_int(in[1], FALSE), prompt_int(in[2], TRUE), prompt_int(in[3], TRUE),
                       prompt_int(in[4], TRUE), prompt_int(in[5], TRUE), prompt_int(in[6], TRUE),
                       prompt_date(in[7], TRUE), prompt_int(in[8], TRUE), prompt_int(in[9], TRUE),
                       prompt_int(in[10], TRUE)>>
        pre == <<Call("select", "matches", <<>>, <<>>)>>
        params == [k \in 1..9 |-> results[k + 1].val]
    IN  /\ steps < limit
        /\ input' = in
        /\ cli = "running"
        /\ IF FirstErr(results) # ""
           THEN CliStop("update", "matches", "reprompt", FirstErr(results), pre, results[1].val,
                        BlankOf(Columns("matches"), Tail(in)))
           ELSE CliWrite("update", "matches", "Updating match", "Match updated.", pre,
                         Call("gate", "matches", Columns("matches"), params),
                         IF params[2] = None \/ params[3] = None
                         THEN Reply(FALSE, store, serial, 0, SigBadInt(""))
                         ELSE ValidateAndInsertMatch(store, serial, params),
                         results[1].val, BlankOf(Columns("matches"), Tail(in)))

update_match(in) ==
    LET results == <<prompt_int(in[1], FALSE), prompt_int(in[2], TRUE), prompt_int(in[3], TRUE),
                       prompt_int(in[4], TRUE), prompt_int(in[5], TRUE), prompt_int(in[6], TRUE),
                       prompt_date(in[7], TRUE), prompt_int(in[8], TRUE), prompt_int(in[9], TRUE),
                       prompt_int(in[10], TRUE)>>
    IN  CliUpdate("matches", "Updating match", "Match updated.", in, results)

update_result(in) ==
    LET results == <<prompt_int(in[1], FALSE), prompt_int(in[2], TRUE), prompt_int(in[3], TRUE),
                       prompt_int(in[4], TRUE), prompt_decimal(in[5], TRUE)>>
    IN  CliUpdate("tournament_results", "Updating result", "Tournament result updated.", in, results)

(***************************************************************************)
(* GUI handlers: selection and update                                      *)
(***************************************************************************)
\* on_select of a frame, after the user clicked the row id of its table
on_select(frame, id) ==
    /\ steps < limit
    /\ input' = <<>>
    /\ id \in DOMAIN gui[frame].tree
    /\ gui' = Selected(gui, frame, id)
    /\ out' = Out("gui", "select", frame, "ok", "",
                  CASE frame = "teams" -> "Selected team " \o gui[frame].tree[id][2]
                    [] frame = "players" -> "Selected player " \o gui[frame].tree[id][2]
                    [] frame = "tournaments" -> "Selected tournament " \o gui[frame].tree[id][2]
                    [] frame = "matches" -> "Selected match " \o IntToStr(id)
                    [] OTHER -> "Selected result " \o IntToStr(id),
                  "", Some(id), {}, None, Offered(gui[frame]))
    /\ steps' = steps + 1
    /\ UNCHANGED <<store, serial, calls, value, picked, shown, memo, limit, fault, cli, trail,
                   screen, conns, smoke>>

\* an exception that leaves a GUI handler: Tk reports it on stderr, no
\* dialog is shown and the status bar is not set
GuiRaise(frame, op, msg, id, blank) ==
    /\ out' = Out("gui", op, frame, "raised", "", "", msg, id, blank, None, Offered(gui[frame]))
    /\ steps' = steps + 1
    /\ UNCHANGED <<store, serial, gui, calls, value, picked, shown, memo, limit, fault, cli,
                   trail, screen, conns, smoke>>

\* the part the full-row GUI update handlers share: the Update button is
\* enabled, a row must be selected, some field must be filled (any), the
\* name(s) must not end up empty (named), the parsers must accept
\* (results); then the UPDATE of every column, refresh() and the status bar
GuiUpdate(frame, noun, in, any, named, msg, results, params, reply) ==
    LET id == gui[frame].sel
        blank == BlankOf(Columns(frame), in)
    IN  /\ steps < limit
        /\ input' = in
        /\ gui[frame].armed
        /\ IF id = None
           THEN GuiStop(frame, "update", "rejected", "Select a " \o noun \o " to update", "",
                        None, blank)
           ELSE IF ~any
           THEN GuiStop(frame, "update", "nochange", "Enter at least one field to update", "",
                        id, blank)
           ELSE IF ~named
           THEN GuiStop(frame, "update", "rejected", msg, "", id, blank)
           ELSE IF FirstErr(results) # ""
           THEN GuiStop(frame, "update", "rejected", FirstErr(results), FirstErr(results), id,
                        blank)
           ELSE GuiWrite(frame, "update", "", "Updated " \o noun \o " " \o IntToStr(id[1]),
                         Call("update", frame, Columns(frame), params), reply, id, blank, FALSE)

\* Python's "typed.strip() or shown" on the cell shown of the selected row
OrCell(typed, shown_cell) == IF Strip(typed) # "" THEN Strip(typed) ELSE shown_cell

TeamsFrame_update(in) ==
    LET current == SelectedValues(gui["teams"])
        name_val == OrCell(in[1], current[2])
        region_val == OrCell(in[2], current[3])
        typed == IF Strip(in[3]) # "" THEN parse_int(in[3]) ELSE Ok(None)
        \* a blank entry sends the Founded cell as shown: the year, or "-"
        founded_year == IF Strip(in[3]) # "" THEN typed.val
                        ELSE IF current[4] = "-" THEN Some("-") ELSE PyInt(current[4]).val
        params == <<Some(name_val), Some(region_val), founded_year, gui["teams"].sel[1]>>
    IN  GuiUpdate("teams", "team", in, \E i \in 1..3 : Strip(in[i]) # "",
                  name_val # "" /\ region_val # "", "team name and region are required",
                  <<typed>>, params,
                  IF Strip(in[3]) = "" /\ current[4] = "-"
                  THEN Reply(FALSE, store, serial, gui["teams"].sel[1], SigBadInt("-"))
                  ELSE Update(store, serial, "teams", Columns("teams"), params))

\* in: the three entries and the team dropdown's value
PlayersFrame_update(in) ==
    LET current == SelectedValues(gui["players"])
        name_val == OrCell(in[1], current[2])
        team_id == parse_combo_id(in[4])
        params == <<Some(name_val), OrNone(in[2]), OrNone(in[3]), team_id.val,
                    gui["players"].sel[1]>>
    IN  GuiUpdate("players", "player", in, \E i \in 1..4 : Strip(in[i]) # "",
                  name_val # "", "player name is required", <<team_id>>, params,
                  Update(store, serial, "players", Columns("players"), params))

TournamentsFrame_update(in) ==
    LET current == SelectedValues(gui["tournaments"])
        name_val == OrCell(in[1], current[2])
        prize_val == parse_decimal(in[3])
        start_date == parse_date(in[4])
        end_date == parse_date(in[5])
        params == <<Some(name_val), OrNone(in[2]), OrNum(prize_val.val, 0), start_date.val,
                    end_date.val, OrNone(in[6]), gui["tournaments"].sel[1]>>
    IN  GuiUpdate("tournaments", "tournament", in, \E i \in 1..6 : Strip(in[i]) # "",
                  name_val # "", "tournament name is required",
                  <<prize_val, start_date, end_date>>, params,
                  Update(store, serial, "tournaments", Columns("tournaments"), params))

\* in: the five dropdowns' values, then the four entries; the parsers run
\* before the try, so what they raise leaves the handler
MatchesFrame_update(in) ==
    LET mid == gui["matches"].sel
        results == <<parse_combo_id(in[1]), parse_combo_id(in[2]), parse_combo_id(in[3]),
                     parse_combo_id(in[4]), parse_combo_id(in[5]), parse_date(in[6]),
                     parse_int(in[7]), parse_int(in[8]), parse_int(in[9])>>
        keep == {i \in DOMAIN results : results[i].val # None}
        cols == Pick(Columns("matches"), keep)
        params == Append(Pick([i \in DOMAIN results |-> results[i].val], keep), mid[1])
        blank == BlankOf(Columns("matches"), in)
    IN  /\ steps < limit
        /\ input' = in
        /\ gui["matches"].armed
        /\ IF mid = None
           THEN GuiStop("matches", "update", "rejected", "Select a match to update", "", None,
                        blank)
           ELSE IF FirstErr(results) # ""
           THEN GuiRaise("matches", "update", FirstErr(results), mid, blank)
           ELSE IF keep = {}
           THEN GuiStop("matches", "update", "nochange", "Enter at least one field to update",
                        "", mid, blank)
           ELSE GuiWrite("matches", "update", "", "Updated match " \o IntToStr(mid[1]),
                         Call("update", "matches", cols, params),
                         Update(store, serial, "matches", cols, params), mid, blank, FALSE)

\* lines of input for update_match: the id, then the nine fields
MatchEdits ==
    ({"1", "9"} \X {""} \X {""} \X {""} \X {"", "2"} \X {""} \X {""} \X {"", "5"} \X {""}
        \X {""})
    \cup {<<"1", "", "2", "", "", "", "", "", "", "">>,
          <<"1", "", "", "", "3", "", "", "", "", "">>,
          <<"1", "9", "", "", "", "", "2025-02-09", "", "", "0">>,
          <<"1", "", "", "", "", "", "bad", "", "", "">>,
          <<"", "", "", "", "", "", "", "", "", "">>}

\* what the user can have in the match form when pressing Update
MatchEditForms(fr) ==
    ({""} \X {""} \X {""} \X fr.team_cb \X {""} \X {"", " ", "2025-02-09"} \X {"", "5", " "}
        \X {""} \X {""})
    \cup {<<c, "", t, "", m, "", "", "0", "x">> :
            c \in fr.tournament_cb, t \in fr.team_cb \ {""}, m \in fr.map_cb}

\* the GUI just launched, or with one row of one frame clicked
InitUpdate ==
    /\ Idle
    /\ limit = MaxOps
    /\ gui \in {Launched(Fixture)}
               \cup UNION {{Selected(Launched(Fixture), f, i) :
                                i \in {j \in 1..2 : j \in DOMAIN Fixture[f]}} :
                             f \in {"teams", "players", "tournaments", "matches"}}

NextUpdate ==
    \/ \E in \in {"1", "9"} \X {"", "Delta", "Beta"} \X {"", "KR"} \X {"", "2021"} :
            update_team(in)
    \/ \E in \in {"1", "x"} \X {"", "zywoo"} \X {"", "FR"} \X {""} \X {"", "2", "9"} :
            update_player(in)
    \/ \E in \in {"1"} \X {"", "Cup"} \X {"", "PGL"} \X {"", "0", "-5"} \X {"", "2025-03-01"}
                    \X {""} \X {""} :
            update_tournament(in)
    \/ \E in \in {"1", "9", ""} \X {"", "Nuke"} : update_map(in)
    \/ \E in \in MatchEdits : update_match(in)
    \/ \E in \in {"1", "9"} \X {"", "9"} \X {""} \X {"", "0", "3"} \X {"", "250"} :
            update_result(in)
    \/ \E f \in Frames, i \in 1..2 : on_select(f, i)
    \/ \E in \in {"", "Delta", "Beta"} \X {"", " "} \X {"", "2021", "x"} :
            TeamsFrame_update(in)
    \/ \E in \in {"", "zywoo"} \X {"", "FR"} \X {""} \X gui["players"].team_cb :
            PlayersFrame_update(in)
    \/ \E in \in {"", "Cup"} \X {"", "PGL"} \X {"", "0", "-5"} \X {"", "2025-03-01", "bad"}
                    \X {""} \X {""} :
            TournamentsFrame_update(in)
    \/ \E in \in MatchEditForms(gui["matches"]) : MatchesFrame_update(in)

SpecUpdate == InitUpdate /\ [][NextUpdate]_vars

(***************************************************************************)
(* Properties of create                                                    *)
(***************************************************************************)
\* the fields each entity requires on create
Required(entity) ==
    CASE entity = "teams" -> {"team_name", "region"}
      [] entity = "players" -> {"player_name"}
      [] entity = "tournaments" -> {"name"}
      [] entity = "maps" -> {"map_name"}
      [] entity = "matches" -> {"tournament_id", "team1_id", "team2_id"}
      [] entity = "tournament_results" -> {"tournament_id", "team_id", "placement"}
      [] entity = "team_roster" -> {"team_id", "player_id"}

TextColumns == {"team_name", "region", "player_name", "name", "map_name"}

\* the value a write request carries for column c
Sent(call, c) == call.params[IndexOf(call.cols, c)]

\* what either front end says when a required field is left blank
MissingRequiredField ==
    {"Please enter a value.", "Enter a valid integer.",
     "team name and region are required", "player name is required",
     "tournament name is required", "tournament and both teams are required",
     "tournament, team, placement are required"}

\* C3: a create in which a required field is blank is turned down by the
\* front end with its missing-field message and without a store call, and
\* no insert reaches the store with a blank or null required field
C3_CreateRequiresFields ==
    /\ [](\A i \in DOMAIN calls :
            calls[i].kind \in {"insert", "gate"} =>
                \A c \in Required(calls[i].table) :
                    /\ Sent(calls[i], c) # None
                    /\ c \in TextColumns => Strip(Sent(calls[i], c)[1]) # "")
    /\ [][(out'.op = "create" /\ out'.blank \cap Required(out'.entity) # {}) =>
            /\ out'.status \in {"reprompt", "rejected"}
            /\ out'.text \in MissingRequiredField
            /\ out'.req = None
            /\ calls' = calls
            /\ store' = store /\ serial' = serial]_vars

\* C3 witness: the GUI turned down a match whose second team was not
\* chosen, and nothing was sent to the store
C3_Witness ==
    /\ out.op = "create" /\ out.fe = "gui" /\ out.entity = "matches"
    /\ "team2_id" \in out.blank /\ "team1_id" \notin out.blank
    /\ out.status = "rejected"
    /\ out.text = "tournament and both teams are required"
    /\ calls = <<>> /\ store = Fixture

FkColumns ==
    {"team_id", "tournament_id", "team1_id", "team2_id", "winner_team_id", "map_id",
     "player_id"}

RefTable(col) ==
    CASE col = "tournament_id" -> "tournaments"
      [] col = "map_id" -> "maps"
      [] col = "player_id" -> "players"
      [] OTHER -> "teams"

\* the (table, id) pairs a write request refers to
FkRefs(call) ==
    {<<RefTable(call.cols[i]), call.params[i][1]>> :
        i \in {j \in DOMAIN call.cols : call.cols[j] \in FkColumns /\ call.params[j] # None}}

\* C5: every foreign-key value a create or update sends to the store was
\* picked from an option set that the operation listed to the user
C5_ForeignKeysFromOptions ==
    out.req # None => FkRefs(out.req[1]) \subseteq out.offered

\* a match creation whose nine fields were sent to the store
MatchSent(o) == o.op = "create" /\ o.entity = "matches" /\ o.req # None

\* C9: a match creation with team1 = team2 is rejected with "team1 and
\* team2 must be different" whatever the other fields hold, and no row is
\* created
C9_TeamsMustDiffer ==
    /\ []((MatchSent(out) /\ Sent(out.req[1], "team1_id") = Sent(out.req[1], "team2_id")) =>
            /\ out.status = "failed"
            /\ out.text = IF out.fe = "cli"
                          THEN "[Error] Creating match: team1 and team2 must be different"
                          ELSE "team1 and team2 must be different")
    /\ [][(MatchSent(out') /\ Sent(out'.req[1], "team1_id") = Sent(out'.req[1], "team2_id"))
            => store' = store /\ serial' = serial]_vars

\* C9 witness: the CLI sent team 1 against itself, with a winner that is
\* neither and a tournament that does not exist, and it was rejected
C9_Witness ==
    /\ MatchSent(out) /\ out.fe = "cli"
    /\ Sent(out.req[1], "team1_id") = Some(1) /\ Sent(out.req[1], "team2_id") = Some(1)
    /\ Sent(out.req[1], "winner_team_id") = Some(3)
    /\ Sent(out.req[1], "tournament_id") = Some(9)
    /\ out.status = "failed"

\* C10: a match creation with two distinct teams and a winner that is
\* neither of them is rejected with "winner must be one of the two teams",
\* and no row is created
C10_InvalidWinner ==
    /\ []((/\ MatchSent(out)
           /\ Sent(out.req[1], "team1_id") # Sent(out.req[1], "team2_id")
           /\ Sent(out.req[1], "winner_team_id") # None
           /\ Sent(out.req[1], "winner_team_id") \notin
                {Sent(out.req[1], "team1_id"), Sent(out.req[1], "team2_id")}) =>
            /\ out.status = "failed"
            /\ out.text = IF out.fe = "cli"
                          THEN "[Error] Creating match: winner must be one of the two teams"
                          ELSE "winner must be one of the two teams")
    /\ [][(/\ MatchSent(out')
           /\ Sent(out'.req[1], "team1_id") # Sent(out'.req[1], "team2_id")
           /\ Sent(out'.req[1], "winner_team_id") # None
           /\ Sent(out'.req[1], "winner_team_id") \notin
                {Sent(out'.req[1], "team1_id"), Sent(out'.req[1], "team2_id")})
            => store' = store /\ serial' = serial]_vars

\* C10 witness: the GUI sent teams 1 and 2 with team 3 picked as winner,
\* and it was rejected
C10_Witness ==
    /\ MatchSent(out) /\ out.fe = "gui"
    /\ Sent(out.req[1], "team1_id") = Some(1) /\ Sent(out.req[1], "team2_id") = Some(2)
    /\ Sent(out.req[1], "winner_team_id") = Some(3)
    /\ out.status = "failed"
    /\ DOMAIN store["matches"] = DOMAIN Fixture["matches"]

(***************************************************************************)
(* Properties of update                                                    *)
(***************************************************************************)
\* an update of an existing row, addressed by out.id
UpdateOf(o) == o.op = "update" /\ o.id # None

\* C1: an update changes only the columns of its non-blank fields: every
\* column whose input was blank holds afterwards the value it held before
C1_BlankKeepsColumn ==
    [][(UpdateOf(out') /\ out'.id[1] \in DOMAIN store[out'.entity]) =>
            \A c \in out'.blank :
                store'[out'.entity][out'.id[1]][c] = store[out'.entity][out'.id[1]][c]]_vars

\* C2: an update whose fields are all blank is answered "no changes",
\* sends no write to the store and leaves the store as it was
C2_AllBlankIsNoChange ==
    [][(UpdateOf(out') /\ out'.blank = Range(Columns(out'.entity))) =>
            /\ out'.status = "nochange"
            /\ out'.req = None
            /\ \A i \in (Len(calls) + 1)..Len(calls') : calls'[i].kind = "select"
            /\ store' = store /\ serial' = serial]_vars

(***************************************************************************)
(* The store: delete and toggle                                            *)
(***************************************************************************)
SigFkDelete(tbl, con, col, idtext, ref) ==
    "update or delete on table \"" \o tbl \o "\" violates foreign key constraint \"" \o con
    \o "\" on table \"" \o ref \o "\"\nDETAIL:  Key (" \o col \o ")=(" \o idtext
    \o ") is still referenced from table \"" \o ref \o "\"."

SigTimeout ==
    "server closed the connection unexpectedly\n\tThis probably means the server terminated "
    \o "abnormally\n\tbefore or while processing the request."

\* what str(e) can be when the store is unreachable
ConnSignals == {SigConn, SigTimeout}

\* the rows <<table, id, column>> that refer to row id of tbl
Refs(st, tbl, id) ==
    UNION {UNION {{<<t, j, c>> : c \in {d \in DOMAIN st[t][j] :
                                          /\ d \in FkColumns
                                          /\ RefTable(d) = tbl
                                          /\ st[t][j][d] = Some(id)}} :
                  j \in DOMAIN st[t]} :
           t \in Tables}

\* the store without the rows that refer to a row that is not there
Purge(st) ==
    [t \in Tables |->
        [j \in {k \in DOMAIN st[t] :
                    \A c \in DOMAIN st[t][k] \cap FkColumns :
                        Exists(st, RefTable(c), st[t][k][c])} |-> st[t][j]]]

\* execute("DELETE FROM tbl WHERE id = %s", (id,)): a row that does not
\* exist is no error.  A row that others refer to is, by the policy of the
\* schema, either kept with a foreign-key failure ("restrict") or deleted
\* together with the rows that refer to it ("cascade")
Delete(st, ser, tbl, id, policy) ==
    IF id \notin DOMAIN st[tbl] THEN Reply(TRUE, st, ser, id, "")
    ELSE IF Refs(st, tbl, id) # {} /\ policy = "restrict"
    THEN LET r == CHOOSE x \in Refs(st, tbl, id) : TRUE
         IN  Reply(FALSE, st, ser, id,
                   SigFkDelete(tbl, r[1] \o "_" \o r[3] \o "_fkey", r[3], IntToStr(id), r[1]))
    ELSE LET without == [st EXCEPT ![tbl] = [j \in DOMAIN st[tbl] \ {id} |-> st[tbl][j]]]
         IN  Reply(TRUE, Purge(Purge(without)), ser, id, "")

Policies == {"restrict", "cascade"}

\* execute("UPDATE team_roster SET is_active = NOT is_active WHERE roster_id = %s", (id,))
Toggle(st, ser, id) ==
    IF id \notin DOMAIN st["team_roster"] THEN Reply(TRUE, st, ser, id, "")
    ELSE LET was == st["team_roster"][id].is_active
         IN  Update(st, ser, "team_roster", <<"is_active">>,
                    <<IF was = None THEN None ELSE Some(~was[1]), id>>)

(***************************************************************************)
(* CLI handlers: list, delete and roster                                   *)
(***************************************************************************)
\* list_teams, list_players, list_tournaments, list_maps, list_matches,
\* list_results, list_roster: one read, then print_rows
CliList(tbl) ==
    /\ steps < limit
    /\ input' = <<>>
    /\ cli = "running"
    /\ CliStop("list", tbl, "ok", "", <<Call("select", tbl, <<>>, <<>>)>>, None, {})

\* a slip: the handler looks the row up and reports one that is not there
CliDelete_lookup(tbl, ctx, done, in, policy) ==
    LET pre == <<Call("select", tbl, <<>>, <<>>)>>
        id == prompt_int(in, FALSE)
    IN  /\ steps < limit
        /\ input' = <<in>>
        /\ cli = "running"
        /\ IF ~id.ok THEN CliStop("delete", tbl, "reprompt", id.err, pre, None, {})
           ELSE CliWrite("delete", tbl, ctx, done, pre, Call("delete", tbl, <<>>, <<id.val[1]>>),
                         IF id.val[1] \in DOMAIN store[tbl]
                         THEN Delete(store, serial, tbl, id.val[1], policy)
                         ELSE Reply(FALSE, store, serial, 0, "row not found"),
                         id.val, {})

\* a CLI delete handler: the list, the id prompt (in is the line typed),
\* then the DELETE
CliDelete(tbl, ctx, done, in, policy) ==
    LET pre == <<Call("select", tbl, <<>>, <<>>)>>
        id == prompt_int(in, FALSE)
    IN  /\ steps < limit
        /\ input' = <<in>>
        /\ cli = "running"
        /\ IF ~id.ok THEN CliStop("delete", tbl, "reprompt", id.err, pre, None, {})
           ELSE CliWrite("delete", tbl, ctx, done, pre, Call("delete", tbl, <<>>, <<id.val[1]>>),
                         Delete(store, serial, tbl, id.val[1], policy), id.val, {})

delete_team(in, policy) ==
    CliDelete("teams", "Deleting team", "Team deleted (if it existed).", in, policy)

delete_player(in, policy) ==
    CliDelete("players", "Deleting player", "Player deleted (if it existed).", in, policy)

delete_tournament(in, policy) ==
    CliDelete("tournaments", "Deleting tournament", "Tournament deleted (if it existed).", in,
              policy)

delete_map(in, policy) ==
    CliDelete("maps", "Deleting map", "Map deleted (if it existed).", in, policy)

delete_match(in, policy) ==
    CliDelete("matches", "Deleting match", "Match deleted (if it existed).", in, policy)

delete_result(in, policy) ==
    CliDelete("tournament_results", "Deleting result", "Result deleted (if it existed).", in,
              policy)

remove_from_roster(in, policy) ==
    CliDelete("team_roster", "Deleting roster entry", "Roster entry deleted (if it existed).",
              in, policy)

\* a slip: the UPDATE sets is_active rather than negating it
toggle_roster_on(in) ==
    LET pre == <<Call("select", "team_roster", <<>>, <<>>)>>
        roster_id == prompt_int(in, FALSE)
    IN  /\ steps < limit
        /\ input' = <<in>>
        /\ cli = "running"
        /\ IF ~roster_id.ok
           THEN CliStop("toggle", "team_roster", "reprompt", roster_id.err, pre, None, {})
           ELSE CliWrite("toggle", "team_roster", "Toggling roster",
                         "Toggled roster active state.", pre,
                         Call("toggle", "team_roster", <<"is_active">>, <<roster_id.val[1]>>),
                         Update(store, serial, "team_roster", <<"is_active">>,
                                <<Some(TRUE), roster_id.val[1]>>),
                         roster_id.val, {})

\* toggle_roster: the list, the id prompt, then the UPDATE that negates is_active
toggle_roster(in) ==
    LET pre == <<Call("select", "team_roster", <<>>, <<>>)>>
        roster_id == prompt_int(in, FALSE)
    IN  /\ steps < limit
        /\ input' = <<in>>
        /\ cli = "running"
        /\ IF ~roster_id.ok
           THEN CliStop("toggle", "team_roster", "reprompt", roster_id.err, pre, None, {})
           ELSE CliWrite("toggle", "team_roster", "Toggling roster",
                         "Toggled roster active state.", pre,
                         Call("toggle", "team_roster", <<"is_active">>, <<roster_id.val[1]>>),
                         Toggle(store, serial, roster_id.val[1]), roster_id.val, {})

\* toggle_roster run by another console session on the same store: this
\* session sees nothing of it but the store
toggle_roster_elsewhere(in) ==
    LET roster_id == prompt_int(in, FALSE)
        reply == Toggle(store, serial, roster_id.val[1])
    IN  /\ steps < limit
        /\ UNCHANGED input
        /\ roster_id.ok
        /\ store' = reply.store
        /\ trail' = Append(trail,
                           Served("other", "toggle", roster_id.val[1], store, reply.store))
        /\ steps' = steps + 1
        /\ UNCHANGED <<serial, gui, out, calls, value, picked, shown, memo, limit, fault, cli,
                       screen, conns, smoke>>

(***************************************************************************)
(* GUI handlers: refresh and delete                                        *)
(***************************************************************************)
\* what refresh() leaves in the status bar
Loaded(frame) ==
    CASE frame = "teams" -> "Loaded teams"
      [] frame = "players" -> "Loaded players"
      [] frame = "tournaments" -> "Loaded tournaments"
      [] frame = "matches" -> "Loaded matches"
      [] OTHER -> "Loaded results"

\* the Refresh button of a frame: refresh() is the callback itself, so what
\* a read raises leaves it (Tk reports it on stderr)
Frame_refresh(frame) ==
    /\ steps < limit
    /\ input' = <<>>
    /\ IF fault.at \in DOMAIN RefreshCalls(frame)
       THEN /\ gui' = [gui EXCEPT ![frame] = HalfRefreshed(store, frame, fault.at)]
            /\ calls' = calls \o SubSeq(RefreshCalls(frame), 1, fault.at)
            /\ out' = Out("gui", "refresh", frame, "raised", "", "", fault.sig, None,
                          {}, None, Offered(gui[frame]))
       ELSE /\ gui' = [gui EXCEPT ![frame] = Refreshed(store, frame, gui[frame].armed)]
            /\ calls' = calls \o RefreshCalls(frame)
            /\ out' = Out("gui", "refresh", frame, "ok", "", Loaded(frame), "", None, {}, None,
                          Offered(gui[frame]))
    /\ fault' = NoFault
    /\ steps' = steps + 1
    /\ UNCHANGED <<store, serial, value, picked, shown, memo, limit, cli, trail, screen, conns, smoke>>

\* the Delete button of a frame: a row must be selected; the user confirms
\* (yes) or not; then the DELETE, refresh(), clear_form() and the status bar
Frame_delete(frame, noun, yes, policy) ==
    LET id == gui[frame].sel
    IN  /\ steps < limit
        /\ input' = <<>>
        /\ gui[frame].armed
        /\ IF id = None
           THEN GuiStop(frame, "delete", "rejected", "Select a " \o noun \o " to delete", "",
                        None, {})
           ELSE IF ~yes
           THEN /\ out' = Out("gui", "delete", frame, "cancelled", "", "", "", id, {}, None,
                              Offered(gui[frame]))
                /\ steps' = steps + 1
                /\ UNCHANGED <<store, serial, gui, calls, value, picked, shown, memo, limit,
                               fault, cli, trail, screen, conns, smoke>>
           ELSE GuiWrite(frame, "delete", "", "Deleted " \o noun \o " " \o IntToStr(id[1]),
                         Call("delete", frame, <<>>, <<id[1]>>),
                         Delete(store, serial, frame, id[1], policy), id, {}, TRUE)

TeamsFrame_delete(yes, policy) == Frame_delete("teams", "team", yes, policy)

PlayersFrame_delete(yes, policy) == Frame_delete("players", "player", yes, policy)

TournamentsFrame_delete(yes, policy) == Frame_delete("tournaments", "tournament", yes, policy)

MatchesFrame_delete(yes, policy) == Frame_delete("matches", "match", yes, policy)

ResultsFrame_delete(yes, policy) == Frame_delete("tournament_results", "result", yes, policy)

\* the store becomes unreachable: the n-th store call of the next operation
\* raises psycopg2.OperationalError with the text sig
Outage(n, sig) ==
    /\ steps < limit
    /\ UNCHANGED input
    /\ fault = NoFault
    /\ fault' = [at |-> n, sig |-> sig]
    /\ UNCHANGED <<store, serial, gui, out, calls, steps, value, picked, shown, memo, limit, cli,
                   trail, screen, conns, smoke>>

(***************************************************************************)
(* Matches: create, update and delete from both front ends                 *)
(***************************************************************************)
\* user operations on matches in one run
MaxMatchOps == 2

\* lines of input for create_match: a sound match, equal teams, a winner
\* that is neither team, and every field filled
MatchLines ==
    {<<"1", "1", "2", "", "", "", "", "", "">>,
     <<"1", "2", "2", "2", "", "", "", "", "">>,
     <<"1", "1", "2", "3", "", "", "", "", "">>,
     <<"1", "2", "3", "3", "1", "2025-02-03", "3", "1", "2">>}

\* what the user can pick in the match form before pressing Create
MatchPicks(fr) ==
    (fr.tournament_cb \ {""}) \X (fr.team_cb \ {""}) \X (fr.team_cb \ {""})
        \X (fr.team_cb \cap {"", "3 - Gamma"}) \X {""} \X {""} \X {""} \X {""} \X {""}

\* lines of input for update_match that move one team or the winner
MatchMoves ==
    {<<"1", "", "", "", "", "", "", "", "5", "">>,
     <<"9", "", "", "", "", "2", "", "", "", "">>,
     <<"1", "", "2", "", "", "", "", "", "", "">>,
     <<"1", "", "", "", "", "", "bad", "", "", "">>,
     <<"", "", "", "", "", "", "", "", "", "">>}
    \cup {<<"1", "", "", "3", "", "", "", "", "", "">>,
          <<"1", "", "3", "", "", "", "", "", "", "">>,
          <<"1", "", "", "", "2", "", "", "", "", "">>,
          <<"2", "", "", "", "1", "", "", "", "", "">>}

\* what the user can have in the match form when pressing Update: a new
\* winner, a new first team, a date
MatchMoveForms(fr) ==
    ({""} \X {""} \X {""} \X fr.team_cb \X {""} \X {"", "2025-02-09"} \X {""} \X {""}
        \X {""})
    \cup {<<"", t, "", "", "", "", "", "", "x">> : t \in fr.team_cb \ {""}}

InitMatch ==
    /\ Idle
    /\ limit = MaxMatchOps
    /\ gui \in {Launched(Fixture), Selected(Launched(Fixture), "matches", 1)}

NextMatch ==
    \/ \E in \in MatchLines : create_match(in)
    \/ \E in \in MatchPicks(gui["matches"]) : MatchesFrame_create(in)
    \/ \E in \in MatchMoves : update_match(in)
    \/ \E in \in MatchMoveForms(gui["matches"]) : MatchesFrame_update(in)
    \/ \E in \in {"1", "x"}, p \in Policies : delete_match(in, p)
    \/ \E p \in Policies : MatchesFrame_delete(TRUE, p)
    \/ \E p \in Policies : delete_team("2", p)
    \/ \E i \in 1..2 : on_select("matches", i)
    \/ Frame_refresh("matches")

SpecMatch == InitMatch /\ [][NextMatch]_vars

\* the two rules of a match row
MatchRules(r) ==
    /\ r.team1_id # r.team2_id
    /\ r.winner_team_id \in {None, r.team1_id, r.team2_id}

MaxRosterOps == 3

\* six players, five entries of team 1 (the fifth active or not) and a
\* sixth entry of team 1 that is not active
RosterFixture(fifth) ==
    [Fixture EXCEPT
        !["players"] = (1 :> PlayerRow(Some("neo"), Some("PL"), Some("Rifler"), Some(1)))
                       @@ (2 :> PlayerRow(Some("ace"), None, None, Some(1)))
                       @@ (3 :> PlayerRow(Some("bit"), None, None, Some(1)))
                       @@ (4 :> PlayerRow(Some("cap"), None, None, Some(1)))
                       @@ (5 :> PlayerRow(Some("dev"), None, None, Some(1)))
                       @@ (6 :> PlayerRow(Some("eli"), None, None, None)),
        !["team_roster"] = (1 :> RosterRow(Some(1), Some(1), Some(TRUE)))
                           @@ (2 :> RosterRow(Some(1), Some(2), Some(TRUE)))
                           @@ (3 :> RosterRow(Some(1), Some(3), Some(TRUE)))
                           @@ (4 :> RosterRow(Some(1), Some(4), Some(TRUE)))
                           @@ (5 :> RosterRow(Some(1), Some(5), Some(fifth)))
                           @@ (6 :> RosterRow(Some(1), Some(6), Some(FALSE)))]

RosterSerial == [FixtureSerial EXCEPT !["players"] = 7, !["team_roster"] = 7]

\* lines of input for add_to_roster
RosterLines == {<<"1", "6", "">>, <<"1", "6", "n">>, <<"x", "6", "">>}

InitRoster ==
    /\ \E fifth \in BOOLEAN :
            /\ store = RosterFixture(fifth)
            /\ gui = Launched(RosterFixture(fifth))
    /\ serial = RosterSerial
    /\ out = NoOut /\ calls = <<>> /\ steps = 0 /\ value = "" /\ picked = NoPick
    /\ shown = NoShown /\ memo = EmptyMemo /\ limit = MaxRosterOps /\ fault = NoFault
    /\ cli = "running" /\ trail = <<>> /\ screen = NoScreen
    /\ input = <<>> /\ conns = NoConns /\ smoke = NoSmoke

NextRoster ==
    \/ \E in \in RosterLines : add_to_roster(in)
    \/ \E in \in {"1", "6", "x"} : toggle_roster(in)
    \/ \E p \in Policies : remove_from_roster("1", p)
    \/ toggle_roster_elsewhere("1")
    \/ Outage(2, SigConn)

SpecRoster == InitRoster /\ [][NextRoster]_vars

\* the team of the entry that an add-to-roster request asks for
AskedTeam(o) == o.req[1].params[1]

\* C12: after any sequence of add-to-roster, toggle and remove operations
\* every team has at most 5 active roster entries; and an add-to-roster of
\* an active entry for a team that has 5 active entries is turned down with
\* the roster-cap message and leaves the store as it was
C12_RosterCapKept ==
    /\ [](\A t \in DOMAIN store["teams"] : ActiveCount(store, Some(t), 0) <= RosterCap)
    /\ [][(/\ out'.op = "create" /\ out'.entity = "team_roster" /\ out'.req # None
           /\ calls' # calls
           /\ out'.signal \notin ConnSignals
           /\ out'.req[1].params[3] = Some(TRUE)
           /\ ActiveCount(store, AskedTeam(out'), 0) >= RosterCap) =>
            /\ out'.status = "failed"
            /\ out'.text = "[Error] Adding to roster: roster cap is 5 active players"
            /\ store' = store]_vars

\* C12 witness: team 1 came to 5 active entries by an operation of the run
\* and the add of a sixth active entry was then turned down
C12_Witness ==
    /\ steps >= 2
    /\ out.op = "create" /\ out.entity = "team_roster" /\ out.status = "failed"
    /\ out.req # None /\ out.req[1].params = <<Some(1), Some(6), Some(TRUE)>>
    /\ out.text = "[Error] Adding to roster: roster cap is 5 active players"
    /\ ActiveCount(store, Some(1), 0) = RosterCap
    /\ Len(trail) >= 2 /\ trail[1].before # trail[1].after

\* entries i and j of the trail are toggles of one roster entry that this
\* console sent
TogglePair(i, j) ==
    /\ i < j
    /\ trail[i].who = "cli" /\ trail[i].kind = "toggle"
    /\ trail[j].who = "cli" /\ trail[j].kind = "toggle"
    /\ trail[i].id = trail[j].id

\* C13 as stated: two toggles of a roster entry from this console give the
\* entry its first is_active back, whatever another session did to the
\* roster between the two
C13_ToggleTwiceRestores ==
    \A i, j \in DOMAIN trail :
        (TogglePair(i, j) /\ \A k \in (i + 1)..(j - 1) : trail[k].who = "other")
            => trail[j].after = trail[i].before

\* C13 amended: two toggles of a roster entry that the store served one
\* right after the other, with no other roster request between them, give
\* the entry its first is_active back, for every entry and every roster
\* state, a team with exactly 5 active entries included
C13_ToggleTwiceInARow ==
    \A i \in DOMAIN trail :
        (i + 1 \in DOMAIN trail /\ TogglePair(i, i + 1)) => trail[i + 1].after = trail[i].before

\* C13 witness: entry 1 of team 1, which held exactly 5 active entries, was
\* toggled off and on again
C13_Witness ==
    /\ Len(trail) = 2
    /\ TogglePair(1, 2)
    /\ trail[1].id = 1
    /\ trail[1].before = Some(TRUE) /\ trail[1].after = Some(FALSE)
    /\ trail[2].after = Some(TRUE)
    /\ ActiveCount(store, Some(1), 0) = RosterCap
    /\ out.op = "toggle" /\ out.status = "ok"

(***************************************************************************)
(* Delete from both front ends                                             *)
(***************************************************************************)
\* delete operations in one run
MaxDeleteOps == 2

InitDelete ==
    /\ Idle
    /\ limit = MaxDeleteOps
    /\ gui \in {Launched(Fixture), Selected(Launched(Fixture), "teams", 3)}
               \cup {Selected(Launched(Fixture), f, 1) : f \in Frames}

NextDelete ==
    \/ \E in \in {"1", "3", "x"}, p \in Policies : delete_team(in, p)
    \/ \E in \in {"1", "9"}, p \in Policies : delete_player(in, p)
    \/ \E in \in {"1", "9"}, p \in Policies : delete_tournament(in, p)
    \/ \E in \in {"1", "9"}, p \in Policies : delete_map(in, p)
    \/ \E in \in {"1", "9"}, p \in Policies : delete_match(in, p)
    \/ \E in \in {"1", "9"}, p \in Policies : delete_result(in, p)
    \/ \E in \in {"1", "9"}, p \in Policies : remove_from_roster(in, p)
    \/ \E yes \in BOOLEAN, p \in Policies : TeamsFrame_delete(yes, p)
    \/ \E yes \in BOOLEAN, p \in Policies : PlayersFrame_delete(yes, p)
    \/ \E yes \in BOOLEAN, p \in Policies : TournamentsFrame_delete(yes, p)
    \/ \E yes \in BOOLEAN, p \in Policies : MatchesFrame_delete(yes, p)
    \/ \E yes \in BOOLEAN, p \in Policies : ResultsFrame_delete(yes, p)
    \/ \E f \in Frames : on_select(f, 1)

SpecDelete == InitDelete /\ [][NextDelete]_vars

\* operation o asked for the deletion of row id of tbl
DeleteOf(o, tbl, id) ==
    /\ o.op = "delete" /\ o.entity = tbl /\ o.id = Some(id)
    /\ o.status \in {"ok", "failed"}

MaxSessionOps == 2

InitSessions ==
    /\ Idle
    /\ limit = MaxSessionOps
    /\ gui \in {Launched(Fixture)} \cup {Selected(Launched(Fixture), "teams", i) : i \in 1..2}

NextSessions ==
    \/ \E in \in {"1", "2"} \X {"", "Delta"} \X {"", "KR"} \X {"", "2021"} : update_team(in)
    \/ \E in \in {"", "Omega"} \X {"", "BR"} \X {"", "2022"} : TeamsFrame_update(in)
    \/ \E i \in 1..2 : on_select("teams", i)
    \/ Frame_refresh("teams")

SpecSessions == InitSessions /\ [][NextSessions]_vars

\* operation o is an update that reached the store and was reported done
Updated(o) == UpdateOf(o) /\ o.req # None /\ o.status = "ok"

\* C15: with two sessions editing the same row, an update does not
\* overwrite a column that its user left blank: a column that the other
\* session's update has just written, and that this update's user did not
\* fill in, holds after this update what the other session wrote
C15_NoStaleOverwrite ==
    [][(/\ calls' # calls
        /\ Updated(out) /\ Updated(out')
        /\ out.fe # out'.fe
        /\ out.entity = out'.entity /\ out.id = out'.id
        /\ out'.id[1] \in DOMAIN store[out'.entity]) =>
            \A c \in out'.blank \ out.blank :
                store'[out'.entity][out'.id[1]][c] = store[out'.entity][out'.id[1]][c]]_vars

(***************************************************************************)
(* Operations while the store may be unreachable                           *)
(***************************************************************************)
\* user operations in one run with outages
MaxOutageOps == 2

\* the store calls of one operation that an outage can hit
MaxCallsHit == 3

InitOutage ==
    /\ Idle
    /\ limit = MaxOutageOps
    /\ gui \in {Launched(Fixture), Selected(Launched(Fixture), "teams", 3),
                Selected(Launched(Fixture), "matches", 1)}

NextOutage ==
    \/ \E n \in 1..MaxCallsHit, sig \in ConnSignals : Outage(n, sig)
    \/ create_team(<<"Delta", "KR", "">>)
    \/ TeamsFrame_create(<<"Delta", "KR", "">>)
    \/ update_team(<<"1", "", "KR", "">>)
    \/ TeamsFrame_update(<<"", "BR", "">>)
    \/ \E p \in Policies : delete_team("3", p)
    \/ \E p \in Policies : TeamsFrame_delete(TRUE, p)
    \/ CliList("teams")
    \/ \E f \in {"teams", "matches"} : Frame_refresh(f)
    \/ MatchesFrame_create(<<"1 - Major", "2 - Beta", "3 - Gamma", "", "", "", "", "", "">>)
    \/ \E in \in {<<"", "", "", "", "", "", "5", "", "">>,
                  <<"", "", "", "", "", "bad", "", "", "">>} : MatchesFrame_update(in)
    \/ on_select("teams", 3)
    \/ on_select("matches", 1)

SpecOutage == InitOutage /\ [][NextOutage]_vars

\* the writes among the store calls that the step made
WritesSent(before, after) ==
    {i \in (Len(before) + 1)..Len(after) : after[i].kind # "select"}

\* C16: all-or-nothing per call.  Whenever a create, update or delete is
\* reported to the user as failed, the store holds what it held before the
\* operation: no error is reported while the operation's write persists
C16_FailedLeavesStore ==
    [][(/\ steps' = steps + 1
        /\ out'.op \in {"create", "update", "delete"}
        /\ out'.status \in {"failed", "rejected", "raised", "crashed"}) =>
            store' = store]_vars

\* C18: every failure is caught and reported for its operation, leaves the
\* front end in the state it was in, and leaves it able to take the next
\* operation
C18_FailuresNonFatal ==
    [][(steps' = steps + 1 /\ out'.signal # "") =>
            /\ out'.status \in {"failed", "rejected"}
            /\ gui' = gui
            /\ cli' = "running"]_vars

\* C19: an operation that fails because the store is unreachable is shown
\* to the user as a failure of the one generic kind "store unavailable", a
\* text that does not carry the driver's message, and no operation sends
\* its write more than once
C19_StoreUnavailable ==
    [][steps' = steps + 1 =>
            /\ Cardinality(WritesSent(calls, calls')) <= 1
            /\ out'.signal \in ConnSignals =>
                    /\ out'.status = "failed"
                    /\ ~Contains(out'.text, FirstLine(out'.signal))
                    /\ ~Contains(out'.bar, FirstLine(out'.signal))]_vars

\* the store text of a violation that the translator has a row for
Recognised(sig) == gui_friendly_error(sig) # FirstLine(sig)

\* C17: no output of a front end (the CLI's error line, the GUI's error
\* dialog, the GUI's status bar) carries the store's own text of a
\* constraint violation that the translator recognises
C17_NoRawStoreText ==
    (out.signal # "" /\ Recognised(out.signal)) =>
        /\ ~Contains(out.text, FirstLine(out.signal))
        /\ ~Contains(out.bar, FirstLine(out.signal))

(***************************************************************************)
(* Listing: the console's list functions and the frames' refresh           *)
(***************************************************************************)
\* operations in one run of listing
MaxListOps == 2

\* three tournaments (one with no start date), results in each, and a
\* match with no date
ListFixture ==
    [Fixture EXCEPT
        !["tournaments"] = @ @@ (2 :> TournamentRow(Some("Cup"), None, Some(0),
                                                    Some("2025-03-01"), None, None))
                             @@ (3 :> TournamentRow(Some("Open"), None, Some(0), None, None,
                                                    None)),
        !["matches"] = @ @@ (2 :> MatchRow(Some(2), Some(2), Some(3), None, None, None,
                                           Some(1), Some(0), Some(0))),
        !["tournament_results"] = @ @@ (2 :> ResultRow(Some(2), Some(2), Some(1), Some(0)))
                                    @@ (3 :> ResultRow(Some(2), Some(3), Some(2), Some(0)))
                                    @@ (4 :> ResultRow(Some(3), Some(1), Some(1), Some(0)))]

ListSerial == [t \in Tables |-> Cardinality(DOMAIN ListFixture[t]) + 1]

InitList ==
    /\ store = ListFixture
    /\ serial = ListSerial
    /\ gui = Launched(ListFixture)
    /\ out = NoOut /\ calls = <<>> /\ steps = 0 /\ value = "" /\ picked = NoPick
    /\ shown = NoShown /\ memo = EmptyMemo /\ limit = MaxListOps /\ fault = NoFault
    /\ cli = "running" /\ trail = <<>> /\ screen = NoScreen
    /\ input = <<>> /\ conns = NoConns /\ smoke = NoSmoke

NextList ==
    \/ \E tbl \in Tables : CliList(tbl)
    \/ \E f \in Frames : Frame_refresh(f)
    \/ \E in \in {"1", "3"} \X {"2"} \X {"1", "3"} \X {""} : create_result(in)
    \/ \E in \in {"1", "3"} \X {""} \X {""} \X {""} \X {"2025-06-01"} \X {""} \X {""} :
            update_tournament(in)
    \/ \E in \in {"Aardvark", "Zeta"} \X {"EU"} \X {""} : create_team(in)

SpecList == InitList /\ [][NextList]_vars

\* the ids of the rows of a table shown, top to bottom
IdsOf(rows) == [k \in DOMAIN rows |-> rows[k][1]]

\* C20: for every store state the console's list of an entity and the
\* refresh of the entity's frame give the rows in the same order: whenever
\* the table on the console and the table of the frame both show the store
\* as it is, their row ids are the same sequence
C20_SameListOrder ==
    \A f \in Frames :
        (/\ screen.entity = f
         /\ screen = Printed(store, f)
         /\ gui[f].tree = View(store, f)
         /\ gui[f].order = Order(store, f)) =>
            IdsOf(screen.rows) = gui[f].order

(***************************************************************************)
(* Optional fields on create                                               *)
(***************************************************************************)
\* the declared default of each optional column that has one
DeclaredDefault ==
    [c \in {"prize_pool", "earnings", "best_of", "team1_score", "team2_score", "is_active"} |->
        CASE c = "best_of" -> Some(1)
          [] c = "is_active" -> Some(TRUE)
          [] OTHER -> Some(0)]

\* the value that the line or entry raw supplies for column c, as front end
\* fe reads it
Supplied(fe, c, raw) ==
    CASE c \in {"prize_pool", "earnings"} ->
            IF fe = "cli" THEN prompt_decimal(raw, TRUE).val ELSE parse_decimal(raw).val
      [] c = "is_active" -> Some(Char(Lower(Strip(raw)), 1) = "y")
      [] OTHER -> IF fe = "cli" THEN prompt_int(raw, TRUE).val ELSE parse_int(raw).val

\* C21: the insert request of a create carries, for each optional column
\* with a declared default, the default if the field was left blank and the
\* value supplied otherwise
C21_DefaultOnlyWhenAbsent ==
    (out.op = "create" /\ out.req # None) =>
        LET cols == out.req[1].cols
            params == out.req[1].params
        IN  \A i \in DOMAIN cols :
                cols[i] \in DOMAIN DeclaredDefault =>
                    params[i] = IF cols[i] \in out.blank THEN DeclaredDefault[cols[i]]
                                ELSE Supplied(out.fe, cols[i], input[i])

\* a match was created with a best of 0 typed in
C21_Witness ==
    /\ out.op = "create" /\ out.entity = "matches" /\ out.req # None
    /\ "best_of" \notin out.blank
    /\ Supplied(out.fe, "best_of", input[7]) = Some(0)

(***************************************************************************)
(* Match creation goes through the store's gate                            *)
(***************************************************************************)
\* the nine fields of a match as front end fe reads them from the lines or
\* the form in
Entered(fe, in) ==
    IF fe = "cli"
    THEN <<prompt_int(in[1], FALSE), prompt_int(in[2], FALSE), prompt_int(in[3], FALSE),
           prompt_int(in[4], TRUE), prompt_int(in[5], TRUE), prompt_date(in[6], TRUE),
           prompt_int(in[7], TRUE), prompt_int(in[8], TRUE), prompt_int(in[9], TRUE)>>
    ELSE <<parse_combo_id(in[1]), parse_combo_id(in[2]), parse_combo_id(in[3]),
           parse_combo_id(in[4]), parse_combo_id(in[5]), parse_date(in[6]),
           parse_int(in[7]), parse_int(in[8]), parse_int(in[9])>>

\* every field reads well and the tournament and both teams are given
Accepted(fe, in) ==
    /\ \A i \in 1..9 : Entered(fe, in)[i].ok
    /\ \A i \in 1..3 : Entered(fe, in)[i].val # None

\* C22: a match creation whose fields read well sends the nine fields to
\* the gate as one request, whether or not the two teams are equal and
\* whatever the winner is; no other write is sent, and when the gate
\* refuses, the store is unchanged and the user sees the translation of the
\* gate's failure
C22_GateDecides ==
    [][(out'.op = "create" /\ out'.entity = "matches" /\ steps' = steps + 1) =>
            /\ Accepted(out'.fe, input') <=> out'.req # None
            /\ out'.req = None => WritesSent(calls, calls') = {}
            /\ out'.req # None =>
                    /\ Cardinality(WritesSent(calls, calls')) = 1
                    /\ \A i \in WritesSent(calls, calls') : calls'[i] = out'.req[1]
                    /\ out'.req[1].kind = "gate"
                    /\ out'.req[1].cols = Columns("matches")
                    /\ Len(out'.req[1].params) = 9
                    /\ \A i \in 1..6 : out'.req[1].params[i] = Entered(out'.fe, input')[i].val
                    /\ out'.status \in {"ok", "failed"}
                    /\ out'.status = "failed" =>
                            /\ store' = store
                            /\ out'.signal # ""
                            /\ out'.text = IF out'.fe = "cli"
                                           THEN print_error("Creating match", out'.signal)
                                           ELSE error(out'.signal).text]_vars

\* C22 witness: the window sent a match of team 2 against itself, with a
\* date, to the gate, and showed the gate's refusal
C22_Witness ==
    /\ MatchSent(out) /\ out.fe = "gui"
    /\ out.req[1].kind = "gate"
    /\ Sent(out.req[1], "team1_id") = Some(2) /\ Sent(out.req[1], "team2_id") = Some(2)
    /\ Sent(out.req[1], "match_date") # None
    /\ out.status = "failed"
    /\ out.text = "team1 and team2 must be different"
    /\ calls = <<out.req[1]>>

(***************************************************************************)
(* The reach of an update                                                  *)
(***************************************************************************)
\* the row identifier an UPDATE request names: its last parameter
RowNamed(call) == call.params[Len(call.params)]

\* C23: an update that is sent to the store changes no table but its own,
\* creates and removes no row, and changes no row but the one whose
\* identifier it names; when no row has that identifier the store is left
\* as it was and the front end reports success
C23_UpdateTouchesOnlyItsRow ==
    [][(out'.op = "update" /\ out'.req # None /\ steps' = steps + 1) =>
            LET tbl == out'.req[1].table
                id == RowNamed(out'.req[1])
            IN  /\ \A t \in Tables \ {tbl} : store'[t] = store[t]
                /\ DOMAIN store'[tbl] = DOMAIN store[tbl]
                /\ \A i \in DOMAIN store[tbl] \ {id} : store'[tbl][i] = store[tbl][i]
                /\ serial' = serial
                /\ id \notin DOMAIN store[tbl] =>
                        /\ store' = store
                        /\ out'.status = "ok"
                        /\ out'.signal = ""]_vars

\* C23 witness: the console updated the placement and the earnings of
\* result 9, which does not exist, and was told that it was updated while
\* the store holds what it held
C23_Witness ==
    /\ out.op = "update" /\ out.entity = "tournament_results" /\ out.req # None
    /\ RowNamed(out.req[1]) = 9
    /\ out.req[1].cols = <<"placement", "earnings">>
    /\ out.status = "ok" /\ out.text = "Tournament result updated."
    /\ store = Fixture

(***************************************************************************)
(* End to end: from an empty store to a listed match                       *)
(***************************************************************************)
\* operations in one run from the empty store
MaxE2EOps == 5

EmptyStore == [t \in Tables |-> <<>>]

InitE2E ==
    /\ store = EmptyStore
    /\ serial = [t \in Tables |-> 1]
    /\ gui = Launched(EmptyStore)
    /\ out = NoOut /\ calls = <<>> /\ steps = 0 /\ value = "" /\ picked = NoPick
    /\ shown = NoShown /\ memo = EmptyMemo /\ limit = MaxE2EOps /\ fault = NoFault
    /\ cli = "running" /\ trail = <<>> /\ screen = NoScreen
    /\ input = <<>> /\ conns = NoConns /\ smoke = NoSmoke

NextE2E ==
    \/ \E in \in {"Alpha", "Beta"} \X {"EU"} \X {""} : create_team(in)
    \/ \E in \in {<<"Open", "", "", "", "", "">>} : create_tournament(in)
    \/ \E in \in {"1"} \X {"1"} \X {"2"} \X {"1", ""} \X {""} \X {""} \X {"3"} \X {"2"} \X {"1"} :
            create_match(in)
    \/ \E c \in gui["matches"].tournament_cb \ {""}, a \in gui["matches"].team_cb \ {""},
            b \in gui["matches"].team_cb \ {""}, w \in {1, 2} :
            /\ a # b
            /\ MatchesFrame_create(<<c, a, b, IF w = 1 THEN a ELSE "", "", "", "3", "2", "1">>)
    \/ CliList("matches")
    \/ Frame_refresh("matches")

SpecE2E == InitE2E /\ [][NextE2E]_vars

\* the store after the four creations of the scenario, the match with
\* winner w
ScenarioStore(w) ==
    [EmptyStore EXCEPT
        !["teams"] = (1 :> TeamRow(Some("Alpha"), Some("EU"), None))
                     @@ (2 :> TeamRow(Some("Beta"), Some("EU"), None)),
        !["tournaments"] = (1 :> TournamentRow(Some("Open"), None, Some(0), None, None, None)),
        !["matches"] = (1 :> MatchRow(Some(1), Some(1), Some(2), w, None, None, Some(3),
                                      Some(2), Some(1)))]

\* the one row of the scenario as a list shows it, with winner cell text
ScenarioRow(text) == <<1, "Open", "Alpha", "Beta", text, "-", None, Some(3), Some(2), Some(1)>>

\* C24: once Alpha, Beta, a tournament and a match between them were
\* created from an empty store, the list of matches, on the console and in
\* the window, is exactly one row, whose winner cell is "Alpha" when Alpha
\* was given as winner and 'TBD' when no winner was given
C24_ListedWinner ==
    \A w \in {None, Some(1)} :
        store = ScenarioStore(w) =>
            LET text == IF w = None THEN "TBD" ELSE "Alpha"
            IN  /\ (out.op = "list" /\ out.entity = "matches") =>
                        screen = [entity |-> "matches", rows |-> <<ScenarioRow(text)>>]
                /\ (out.fe = "gui" /\ out.entity = "matches" /\ out.status = "ok") =>
                        /\ gui["matches"].tree = (1 :> ScenarioRow(text))
                        /\ gui["matches"].order = <<1>>

\* C24 witness: the console listed the match that Alpha won
C24_Witness ==
    /\ store = ScenarioStore(Some(1))
    /\ out.op = "list" /\ out.entity = "matches"
    /\ Len(screen.rows) = 1 /\ screen.rows[1][5] = "Alpha"
    /\ steps = 5

(***************************************************************************)
(* The smoke test (smoke_test.py): create, update, read back, clean up     *)
(***************************************************************************)
\* user operations before the smoke test is started
MaxSmokeOps == 2

\* one statement of main(): the helper call and, when it returns, the next
\* statement with what main() keeps (bind); an exception of the helper is
\* not caught and ends the test
SmokeStep(at, next, call, reply, bind) ==
    /\ smoke.pc = at
    /\ calls' = Append(calls, call)
    /\ store' = reply.store
    /\ serial' = reply.serial
    /\ smoke' = IF reply.ok THEN [bind EXCEPT !.pc = next]
                ELSE [smoke EXCEPT !.pc = "crashed", !.err = reply.err,
                                   !.before = IF at = "idle" THEN store ELSE @]
    /\ UNCHANGED <<gui, out, steps, value, picked, shown, memo, limit, fault, cli, trail,
                   screen, input, conns>>

smoke_create_team ==
    LET params == <<Some("Smoke Test Team"), Some("EU"), Some(2024)>>
        reply == Insert(store, serial, "teams", params)
    IN  SmokeStep("idle", "player", Call("insert", "teams", Columns("teams"), params), reply,
                  [smoke EXCEPT !.before = store, !.ids.team = reply.id])

smoke_create_player ==
    LET params == <<Some("Smoke Player"), Some("Nowhere"), Some("Rifler"), Some(smoke.ids.team)>>
        reply == Insert(store, serial, "players", params)
    IN  SmokeStep("player", "tournament",
                  Call("insert", "players", Columns("players"), params), reply,
                  [smoke EXCEPT !.ids.player = reply.id])

smoke_create_tournament ==
    LET params == <<Some("Smoke Open"), Some("TestOrg"), Some(10000), Some("2025-01-01"),
                    Some("2025-01-02"), Some("Online")>>
        reply == Insert(store, serial, "tournaments", params)
    IN  SmokeStep("tournament", "match",
                  Call("insert", "tournaments", Columns("tournaments"), params), reply,
                  [smoke EXCEPT !.ids.tournament = reply.id])

\* the match is a plain INSERT against team 1 on map 1
smoke_create_match ==
    LET params == <<Some(smoke.ids.tournament), Some(smoke.ids.team), Some(1),
                    Some(smoke.ids.team), Some(1), Some("2025-01-01"), Some(1), Some(1),
                    Some(0)>>
        reply == Insert(store, serial, "matches", params)
    IN  SmokeStep("match", "result", Call("insert", "matches", Columns("matches"), params),
                  reply, [smoke EXCEPT !.ids.match = reply.id])

smoke_create_result ==
    LET params == <<Some(smoke.ids.tournament), Some(smoke.ids.team), Some(1), Some(5000)>>
        reply == Insert(store, serial, "tournament_results", params)
    IN  SmokeStep("result", "update",
                  Call("insert", "tournament_results", Columns("tournament_results"), params),
                  reply, [smoke EXCEPT !.ids.result = reply.id])

smoke_update_team ==
    LET params == <<Some("Smoke Test Team Updated"), smoke.ids.team>>
    IN  SmokeStep("update", "read", Call("update", "teams", <<"team_name">>, params),
                  Update(store, serial, "teams", <<"team_name">>, params), smoke)

\* fetch_one: the name of the team, None when no row has the identifier
smoke_read_back ==
    SmokeStep("read", "delete_result", Call("select", "teams", <<>>, <<smoke.ids.team>>),
              Reply(TRUE, store, serial, smoke.ids.team, ""),
              [smoke EXCEPT !.updated = IF smoke.ids.team \in DOMAIN store["teams"]
                                        THEN store["teams"][smoke.ids.team].team_name
                                        ELSE None])

\* one DELETE of the cleanup
SmokeDelete(at, next, tbl, id, policy) ==
    SmokeStep(at, next, Call("delete", tbl, <<>>, <<id>>), Delete(store, serial, tbl, id, policy),
              smoke)

smoke_delete_result(policy) ==
    SmokeDelete("delete_result", "delete_match", "tournament_results", smoke.ids.result, policy)

\* a slip: the cleanup leaves the match out
smoke_delete_match_skipped(policy) ==
    SmokeStep("delete_match", "delete_player", Call("select", "matches", <<>>, <<>>),
              Reply(TRUE, store, serial, smoke.ids.match, ""), smoke)

smoke_delete_match(policy) ==
    SmokeDelete("delete_match", "delete_player", "matches", smoke.ids.match, policy)

smoke_delete_player(policy) ==
    SmokeDelete("delete_player", "delete_tournament", "players", smoke.ids.player, policy)

smoke_delete_tournament(policy) ==
    SmokeDelete("delete_tournament", "delete_team", "tournaments", smoke.ids.tournament, policy)

smoke_delete_team(policy) ==
    SmokeDelete("delete_team", "done", "teams", smoke.ids.team, policy)

InitSmoke ==
    /\ Idle
    /\ gui = Launched(Fixture)
    /\ limit = MaxSmokeOps

\* what the user did to the store before the test: the test then runs alone
NextSmoke ==
    \/ \E p \in Policies : smoke.pc = "idle" /\ delete_team("1", p)
    \/ \E p \in Policies : smoke.pc = "idle" /\ delete_map("1", p)
    \/ \E p \in Policies : smoke.pc = "idle" /\ delete_match("1", p)
    \/ \E in \in {"Smoke Test Team", "Smoke Test Team Updated", "Delta"} \X {"EU"} \X {""} :
            smoke.pc = "idle" /\ create_team(in)
    \/ smoke_create_team
    \/ smoke_create_player
    \/ smoke_create_tournament
    \/ smoke_create_match
    \/ smoke_create_result
    \/ smoke_update_team
    \/ smoke_read_back
    \/ \E p \in Policies : smoke_delete_result(p)
    \/ \E p \in Policies : smoke_delete_match(p)
    \/ \E p \in Policies : smoke_delete_player(p)
    \/ \E p \in Policies : smoke_delete_tournament(p)
    \/ \E p \in Policies : smoke_delete_team(p)

SpecSmoke == InitSmoke /\ [][NextSmoke]_vars

\* the exception that ended the test is a foreign-key rejection
FkRejected(s) == s.pc = "crashed" /\ Contains(s.err, "violates foreign key constraint")

\* the test is past its read back
ReadBack(s) ==
    s.pc \in {"delete_result", "delete_match", "delete_player", "delete_tournament",
              "delete_team", "done"}

\* the store the test started on holds what the test relies on: team 1 and
\* map 1, and no team that bears one of the two names the test gives its team
Seeded(st) ==
    /\ 1 \in DOMAIN st["teams"]
    /\ 1 \in DOMAIN st["maps"]
    /\ \A i \in DOMAIN st["teams"] :
            st["teams"][i].team_name \notin
                {Some("Smoke Test Team"), Some("Smoke Test Team Updated")}

\* the claim as stated, on whatever store the test starts: the test meets
\* no foreign-key rejection, never ends on an exception with rows left
\* behind, reads back the updated name and ends on the rows it started on
C25_SmokeRoundTrip ==
    /\ ~FkRejected(smoke)
    /\ smoke.pc = "crashed" => store = smoke.before
    /\ ReadBack(smoke) => smoke.updated = Some("Smoke Test Team Updated")
    /\ smoke.pc = "done" => store = smoke.before

\* C25: the smoke test, run alone on a store that holds team 1 and map 1
\* and no team bearing one of the test's two team names, meets no rejection
\* at all, reads back the updated team name, and ends with the store
\* holding exactly the rows it held before the test
C25_SmokeRoundTripSeeded ==
    (smoke.pc # "idle" /\ Seeded(smoke.before)) =>
        /\ smoke.pc # "crashed"
        /\ ReadBack(smoke) => smoke.updated = Some("Smoke Test Team Updated")
        /\ smoke.pc = "done" => store = smoke.before

\* C25 witness: the test ran to its end on a store from which the user had
\* first deleted match 1 and to which a team was added
C25_Witness ==
    /\ smoke.pc = "done"
    /\ steps = 2
    /\ Seeded(smoke.before)
    /\ store = smoke.before
    /\ store # Fixture
    /\ smoke.updated = Some("Smoke Test Team Updated")
    /\ smoke.ids.team \notin DOMAIN store["teams"]
    /\ serial["teams"] > smoke.ids.team

(***************************************************************************)
(* The UPDATE statements built from the fields given                       *)
(***************************************************************************)
\* how a column's field is read
FieldKind(col) ==
    CASE col \in {"prize_pool", "earnings"} -> "decimal"
      [] col \in {"start_date", "end_date", "match_date"} -> "date"
      [] col \in {"team_name", "region", "player_name", "country", "role", "name", "organizer",
                  "location", "map_name"} -> "str"
      [] OTHER -> "int"

\* the value front end fe reads for column col from the line or entry raw
FieldValue(fe, col, raw) ==
    IF fe = "cli"
    THEN CASE FieldKind(col) = "decimal" -> prompt_decimal(raw, TRUE).val
           [] FieldKind(col) = "date" -> prompt_date(raw, TRUE).val
           [] FieldKind(col) = "str" -> prompt_str(raw, TRUE).val
           [] OTHER -> prompt_int(raw, TRUE).val
    ELSE CASE FieldKind(col) = "date" -> parse_date(raw).val
           [] col \in {"best_of", "team1_score", "team2_score"} -> parse_int(raw).val
           [] OTHER -> parse_combo_id(raw).val

\* the update handlers that build their statement from the fields given:
\* those of the console, and the match update of the window
BuiltUpdate(o) ==
    /\ o.op = "update" /\ o.req # None
    /\ o.fe = "cli" \/ o.entity = "matches"

\* the entries of the fields alone: the console's first line is the id
FieldsOf(o, in) == IF o.fe = "cli" THEN Tail(in) ELSE in

\* C26: a built UPDATE names columns of the entity's fixed list only, each
\* once and in the list's order; it carries one parameter per named column,
\* the i-th being the value read for the i-th named column, and the row
\* identifier as one more, last, parameter
C26_BuiltUpdateShape ==
    BuiltUpdate(out) =>
        LET call == out.req[1]
            all == Columns(out.entity)
            at == [i \in DOMAIN call.cols |-> IndexOf(all, call.cols[i])]
        IN  /\ call.kind = "update" /\ call.table = out.entity
            /\ call.cols # <<>>
            /\ \A i \in DOMAIN call.cols : at[i] # 0
            /\ \A i, j \in DOMAIN call.cols : i < j => at[i] < at[j]
            /\ Len(call.params) = Len(call.cols) + 1
            /\ call.params[Len(call.params)] = out.id[1]
            /\ \A i \in DOMAIN call.cols :
                    /\ call.params[i] # None
                    /\ call.params[i] =
                            FieldValue(out.fe, call.cols[i], FieldsOf(out, input)[at[i]])
            /\ \A c \in Range(all) \ Range(call.cols) :
                    FieldValue(out.fe, c, FieldsOf(out, input)[IndexOf(all, c)]) = None

\* C26 witness: the console's match update with two fields given named
\* the two columns and carried their values, then the id
C26_Witness ==
    /\ BuiltUpdate(out) /\ out.fe = "cli" /\ out.entity = "matches"
    /\ out.req[1].cols = <<"winner_team_id", "best_of">>
    /\ out.req[1].params = <<Some(2), Some(5), 1>>
    /\ input = <<"1", "", "", "", "2", "", "", "5", "", "">>

(***************************************************************************)
(* The db helpers: one connection and one transaction per call             *)
(***************************************************************************)
\* helper calls in one run
MaxDbCalls == 2

\* where the connection to the store can fail during a helper call
Losses == {"no", "connect", "statement", "commit"}

\* one thing done on connection id, and whether it returned (ok) or raised
Ev(id, ev, ok) == [conn |-> id, ev |-> ev, ok |-> ok]

\* a slip: the connection is closed after the commit only
get_conn_no_finally(id, lost, body_ok) ==
    IF lost = "connect" THEN <<>>
    ELSE LET ran == body_ok /\ lost # "statement"
             committed == ran /\ lost # "commit"
         IN  ((<<Ev(id, "connect", TRUE), Ev(id, "execute", ran)>>
               \o (IF ran THEN <<Ev(id, "commit", committed)>> ELSE <<>>))
               \o (IF ~committed THEN <<Ev(id, "rollback", lost = "no")>> ELSE <<>>))
             \o (IF committed THEN <<Ev(id, "close", TRUE)>> ELSE <<>>)

\* get_conn() around the body of a helper: psycopg2.connect (which raises
\* when lost = "connect"), the body's cur.execute (which raises when the
\* store refuses the statement, ~body_ok, or the connection is lost), then
\* commit; on an exception of the body or of the commit, rollback (which
\* itself raises on a lost connection) and the exception goes on; close in
\* every case
get_conn(id, lost, body_ok) ==
    IF lost = "connect" THEN <<>>
    ELSE LET ran == body_ok /\ lost # "statement"
             committed == ran /\ lost # "commit"
         IN  ((<<Ev(id, "connect", TRUE), Ev(id, "execute", ran)>>
               \o (IF ran THEN <<Ev(id, "commit", committed)>> ELSE <<>>))
               \o (IF ~committed THEN <<Ev(id, "rollback", lost = "no")>> ELSE <<>>))
             \o <<Ev(id, "close", TRUE)>>

\* the transaction of the events was committed
Committed(events) == \E i \in DOMAIN events : events[i].ev = "commit" /\ events[i].ok

\* the connections open after the events
RECURSIVE OpenAfter(_, _)
OpenAfter(open, events) ==
    IF events = <<>> THEN open
    ELSE OpenAfter(CASE Head(events).ev = "connect" -> open \cup {Head(events).conn}
                     [] Head(events).ev = "close" -> open \ {Head(events).conn}
                     [] OTHER -> open,
                   Tail(events))

\* one call of a db helper: the statement call has the outcome reply if the
\* store is reached; what it did is kept on commit only
DbCall(helper, call, reply, lost) ==
    LET events == get_conn(conns.made + 1, lost, reply.ok)
        done == Committed(events)
    IN  /\ steps < limit
        /\ input' = <<>>
        /\ conns' = [open |-> OpenAfter(conns.open, events), log |-> events,
                     made |-> IF events = <<>> THEN conns.made ELSE conns.made + 1]
        /\ store' = IF done THEN reply.store ELSE store
        /\ serial' = IF done THEN reply.serial ELSE serial
        /\ calls' = Append(calls, call)
        /\ out' = Out("db", helper, call.table, IF done THEN "ok" ELSE "raised", "", "",
                      IF done THEN "" ELSE IF lost = "no" THEN reply.err ELSE SigConn,
                      None, {}, Some(call), {})
        /\ steps' = steps + 1
        /\ UNCHANGED <<gui, value, picked, shown, memo, limit, fault, cli, trail, screen, smoke>>

fetch_all(tbl, lost) ==
    DbCall("fetch_all", Call("select", tbl, <<>>, <<>>), Reply(TRUE, store, serial, 0, ""), lost)

fetch_one(tbl, id, lost) ==
    DbCall("fetch_one", Call("select", tbl, <<>>, <<id>>), Reply(TRUE, store, serial, id, ""),
           lost)

execute(tbl, cols, params, lost) ==
    DbCall("execute", Call("update", tbl, cols, params),
           Update(store, serial, tbl, cols, params), lost)

execute_returning(tbl, params, lost) ==
    DbCall("execute_returning", Call("insert", tbl, Columns(tbl), params),
           Insert(store, serial, tbl, params), lost)

InitConn ==
    /\ Idle
    /\ gui = Launched(Fixture)
    /\ limit = MaxDbCalls

NextConn ==
    \/ \E tbl \in {"teams", "matches"}, lost \in Losses : fetch_all(tbl, lost)
    \/ \E id \in {1, 9}, lost \in Losses : fetch_one("teams", id, lost)
    \/ \E n \in {"Beta", "Delta"}, id \in {1, 9}, lost \in Losses :
            execute("teams", <<"team_name">>, <<Some(n), id>>, lost)
    \/ \E n \in {"Alpha", "Delta"}, lost \in Losses :
            execute_returning("teams", <<Some(n), Some("EU"), None>>, lost)

SpecConn == InitConn /\ [][NextConn]_vars

\* the positions in the events at which ev was done
Where(events, ev) == {i \in DOMAIN events : events[i].ev = ev}

\* C27: every helper call makes a connection of its own, and what it does on
\* it ends either in a commit that returned, when the helper returns, or in
\* a rollback, when the helper raises, never in both and never in neither;
\* the connection is closed last in both cases, none is open once the call
\* is over, and a call that raised has changed nothing in the store
C27_OneTransactionPerCall ==
    /\ [](conns.open = {})
    /\ [](out.fe = "db" =>
            LET e == conns.log
            IN  IF e = <<>> THEN out.status = "raised"
                ELSE /\ \A i \in DOMAIN e : e[i].conn = conns.made
                     /\ Where(e, "connect") = {1}
                     /\ Where(e, "close") = {Len(e)}
                     /\ Cardinality(Where(e, "commit")) <= 1
                     /\ Cardinality(Where(e, "rollback")) <= 1
                     /\ Committed(e) <=> Where(e, "rollback") = {}
                     /\ Committed(e) <=> out.status = "ok"
                     /\ Where(e, "rollback") # {} <=> out.status = "raised")
    /\ [][out'.fe = "db" /\ steps' = steps + 1 =>
            /\ conns'.log # <<>> => conns'.made = conns.made + 1
            /\ out'.status = "raised" => store' = store]_vars

\* C27 witness: after a call that committed, an insert that the store
\* refused was rolled back on a second connection, which was closed
C27_Witness ==
    /\ out.fe = "db" /\ out.op = "execute_returning" /\ out.status = "raised"
    /\ steps = 2 /\ conns.made = 2
    /\ conns.log = <<Ev(2, "connect", TRUE), Ev(2, "execute", FALSE), Ev(2, "rollback", TRUE),
                     Ev(2, "close", TRUE)>>
    /\ conns.open = {}
    /\ store # Fixture

(***************************************************************************)
(* The translator's table: order of the rows and reach of the last row     *)
(***************************************************************************)
\* the texts by which the first five rows of the table know their signal
RowPatterns ==
    <<{"team_region_chk"}, {"team_name", "already exists"}, {"player_name_chk"},
      {"different_teams_chk"}, {"winner_valid_chk"}>>

RowCategory ==
    <<"region is required for a team", "team name must be unique", "player name is required",
      "team1 and team2 must be different", "winner must be one of the two teams",
      "roster cap is 5 active players">>

\* the rows of the table that signal s matches: the roster-cap row, the
\* sixth, is for the signal that reports the limit of active players
MatchingRows(s) ==
    {i \in DOMAIN RowPatterns : \A p \in RowPatterns[i] : Contains(Lower(s.sig), p)}
    \cup (IF s.kind = "roster_cap" THEN {6} ELSE {})

\* C28: the category of a signal that matches rows of the table is that of
\* the earliest row it matches, and the roster-cap category is given to
\* signals that report the roster limit only
C28_EarliestRowCapOnly ==
    shown.sig # "" =>
        /\ MatchingRows(shown) # {} =>
                CategoryOf(shown) =
                    RowCategory[CHOOSE i \in MatchingRows(shown) :
                                    \A j \in MatchingRows(shown) : i <= j]
        /\ CategoryOf(shown) = RowCategory[6] => shown.kind = "roster_cap"

(***************************************************************************)
(* The Update and Delete buttons and the selected row                      *)
(***************************************************************************)
\* the window sent an update or a delete to the store
GuiRowWrite(o) == o.fe = "gui" /\ o.op \in {"update", "delete"} /\ o.req # None

\* C29: the window sends an update or a delete only for the row that is
\* selected, a delete that the user did not confirm sends nothing, and in
\* every frame the Update and Delete buttons are enabled only while a row
\* is selected
C29_ButtonsFollowSelection ==
    /\ [](\A f \in Frames : gui[f].armed => gui[f].sel # None)
    /\ [][(GuiRowWrite(out') /\ steps' = steps + 1) =>
            /\ gui[out'.entity].sel # None
            /\ RowNamed(out'.req[1]) = gui[out'.entity].sel[1]]_vars
    /\ [][(out'.fe = "gui" /\ out'.status = "cancelled" /\ steps' = steps + 1) =>
            calls' = calls /\ store' = store]_vars

(***************************************************************************)
(* The window's table after its own writes                                 *)
(***************************************************************************)
\* the window's create, update or delete went through and said so
GuiWritten(o) == o.fe = "gui" /\ o.op \in {"create", "update", "delete"} /\ o.status = "ok"

\* C30: a create, update or delete of the window that succeeds reads the
\* frame's rows from the store again after its write, within the same
\* handler, and the frame then shows the rows of the store as they are
\* after the write, in the order of the frame's query
C30_ReloadAfterWrite ==
    [][(GuiWritten(out') /\ steps' = steps + 1) =>
            LET f == out'.entity
            IN  /\ gui'[f].tree = View(store', f)
                /\ gui'[f].order = Order(store', f)
                /\ \E i, j \in (Len(calls) + 1)..Len(calls') :
                        /\ i < j
                        /\ calls'[i] = out'.req[1]
                        /\ calls'[j] = Call("select", f, <<>>, <<>>)]_vars

\* C30 witness: the window deleted team 3 after the console had changed
\* team 1, and its table shows both changes
C30_Witness ==
    /\ GuiWritten(out) /\ out.op = "delete" /\ out.entity = "teams"
    /\ steps = 2
    /\ gui["teams"].tree = View(store, "teams")
    /\ DOMAIN gui["teams"].tree = {1, 2}
    /\ gui["teams"].tree[1][3] = "KR"
    /\ gui["teams"].tree # View(Fixture, "teams")

(***************************************************************************)
(* The program as a whole: both front ends on one store                    *)
(***************************************************************************)
Init == InitUpdate

Next == NextCreate \/ NextUpdate

Spec == Init /\ [][Next]_vars

=============================================================================
